---- MODULE Spec2Model ----
(***************************************************************************)
(* Negotiation funnel of src/src/server.js: the context row kept in        *)
(* profile_memories (key 'context'), the negotiation_sessions table, and   *)
(* the handlers that read and write them (handleNegotiationFlow, the       *)
(* follow branch of handleEvent, GET /debug/reset-negotiation).            *)
(*                                                                         *)
(* Spec: events are handled one at a time.  Every store call (Supabase     *)
(* read or write) of a handler may fail; the handler then throws and keeps *)
(* the writes it had already made.                                         *)
(*                                                                         *)
(* SpecSteps: two invocations of handleNegotiationFlow for the same user   *)
(* run at once, one store call per step, no store call failing.            *)
(*                                                                         *)
(* SpecExtract: extractBudgetAndReason and extractYenOffer applied to an    *)
(* amount text, then to the decimal string of the number they returned.    *)
(* fw0, fw1, ... are the full-width digits, "fw," the full-width comma,    *)
(* man / sen the kanji for ten thousand / thousand.                        *)
(*                                                                         *)
(* SpecTasks: the tasks, task_reminders and task_drafts tables, the task   *)
(* handlers of handleEvent (three-step draft, one-line command, complete,  *)
(* delete) for a user outside the funnel, and the two cron endpoints.  The *)
(* time is counted in quarters of an hour.  An insert of a task creation   *)
(* may fail.  SpecCron: the same without failing inserts, the clock and    *)
(* the two cron endpoints being fair.  SpecNotify: the notify endpoint     *)
(* one await per step, two runs in flight, its update of sent_at failing   *)
(* or not, around one task.                                                *)
(*                                                                         *)
(* SpecPay: the payment endpoints (checkout, custom checkout, success,     *)
(* admin upgrade, the two Stripe webhooks), the body of                    *)
(* /api/stripe/webhook one store call per step with two bodies in flight,  *)
(* with STRIPE_WEBHOOK_SECRET set or unset, for a user who has not         *)
(* negotiated or has agreed on a price.                                    *)
(*                                                                         *)
(* A message text is a sequence of tokens.  A token is an ASCII character  *)
(* (digit, comma, blank, "!", ".") or a romanised stand-in for one         *)
(* Japanese substring of the source's regular expressions and keyword      *)
(* tests: kosho (negotiation), kakaku / nedan / ryokin (price), yasuku     *)
(* (cheaper), motto (more), hai (yes), goi (agreed), yameru (quit),        *)
(* cancel, takai (expensive), yosan (budget), muri (impossible), gakusei   *)
(* (student), team, kaisha (company), tsukaikata (usage), mada (not yet),  *)
(* yen (the yen sign or the yen kanji), desu / masu (polite endings).      *)
(*                                                                         *)
(* Not modelled: the updated_at columns (written, never read), the text of *)
(* the replies beyond their kind and the amounts they quote.               *)
(***************************************************************************)
EXTENDS Integers, Sequences, FiniteSets, TLC

\* ---------------------------------------------------------------- bounds
\* Number of events (webhook deliveries, debug requests) in a run.
MaxTime == 8
\* Number of events of a run in which a store call fails.
MaxFailures == 1

\* ----------------------------------------------------------- null values
\* JavaScript null / undefined of a string field.
Null == "null"
\* null current_session_id (session ids are 1, 2, ... in insertion order).
NoId == 0
\* null of a numeric column or field (budget_yen, final_price, completed_at).
NoNum == -1
\* null purpose.
NoText == <<>>

Users == {"u1"}

Min(a, b) == IF a < b THEN a ELSE b

\* {...r, ...p} restricted to the modelled fields of r.
Merge(r, p) == [k \in DOMAIN r |-> IF k \in DOMAIN p THEN p[k] ELSE r[k]]

\* ------------------------------------------------------- message texts
Digits == {"0", "1", "2", "3", "4", "5", "6", "7", "8", "9"}

DigitVal(c) ==
  CASE c = "0" -> 0 [] c = "1" -> 1 [] c = "2" -> 2 [] c = "3" -> 3
    [] c = "4" -> 4 [] c = "5" -> 5 [] c = "6" -> 6 [] c = "7" -> 7
    [] c = "8" -> 8 [] c = "9" -> 9

Texts ==
  { <<"kakaku">>,                         \* start phrase
    <<"yameru">>,                         \* decline phrase
    <<"hai", "desu">>,                    \* acceptance phrase with a tail
    <<"takai">>,                          \* budget objection
    <<"5", "0", "0", "yen">>,             \* 500 yen
    <<"1", "2", ",", "0", "0", "0">>,     \* 12,000
    <<"team">> }                          \* team role; no phrase, no number

Has(t, words) == \E i \in 1..Len(t) : t[i] \in words

StartWords ==
  { "kosho", "nedan", "nedan_kana", "kakaku", "nesage", "yasuku", "yasui",
    "waribiki", "discount", "nebiki", "ryokin", "hajimeru", "hanashiai",
    "sodan", "kimeyou", "proplan", "upgrade", "iko", "tsukaitai", "motto",
    "tsuzuketai" }

\* The alternatives of NEGOTIATION_START_REGEX, compound phrases included.
StartPhrases ==
  { <<w>> : w \in StartWords } \cup
  { <<"upgrade", "kosho">>, <<"kakaku", "kosho">>, <<"ryokin", "kosho">>,
    <<"nedan", "kosho">>, <<"nedan", "sodan">>, <<"kakaku", "sodan">>,
    <<"ryokin", "sodan">> }

\* Anchored alternation: the whole text is one start phrase.
NEGOTIATION_START_REGEX(t) == t \in StartPhrases

\* The character class that may follow an accept or decline phrase.
TailChars == {"!", ".", "desu", "masu", " "}

\* ^(phrase)([tail]*)?$
PhraseThenTail(t, phrases) ==
  \E p \in phrases :
    /\ Len(p) <= Len(t)
    /\ SubSeq(t, 1, Len(p)) = p
    /\ \A i \in (Len(p) + 1)..Len(t) : t[i] \in TailChars

AcceptPhrases ==
  { <<"hai">>, <<"ok">>, <<"ryokai">>, <<"ryokai_kana">>, <<"goi">>,
    <<"sorede">>, <<"kimeta">>, <<"kau">> }

ACCEPT_REGEX(t) == PhraseThenTail(t, AcceptPhrases)

DeclinePhrases ==
  { <<"yameru">>, <<"cancel">>, <<"cancel", "suru">>, <<"chushi">>,
    <<"shuryo">>, <<"kosho", "shuryo">>, <<"iranai">>, <<"fuyo">> }

DECLINE_REGEX(t) == PhraseThenTail(t, DeclinePhrases)

RestartWords ==
  { "kakaku", "nedan", "ryokin", "yasuku", "waribiki", "kosho", "hanashiai",
    "sodan", "kimeyou", "proplan", "upgrade", "iko", "tsukaitai", "motto",
    "tsuzuketai" }

\* Unanchored alternation of the 'close' restart test.
RestartRegex(t) == Has(t, RestartWords)

classifyRole(t) ==
  IF Has(t, {"gakusei", "student", "school"}) THEN "student"
  ELSE IF Has(t, {"team", "kaisha", "corporate"}) THEN "team"
  ELSE "indie"

BudgetStripChars == {",", " ", "yen"}

RECURSIVE ParseInt(_)
ParseInt(ds) ==
  IF Len(ds) = 0 THEN 0
  ELSE 10 * ParseInt(SubSeq(ds, 1, Len(ds) - 1)) + DigitVal(ds[Len(ds)])

\* text.replace(/[,\s yen]/g, '').match(/(\d{3,6})/): leftmost run of three
\* digits, extended greedily to at most six.
MatchDigits3to6(s) ==
  LET starts == { i \in 1..Len(s) :
                    /\ i + 2 <= Len(s)
                    /\ \A j \in i..(i + 2) : s[j] \in Digits }
  IN IF starts = {} THEN <<>>
     ELSE LET i == CHOOSE a \in starts : \A b \in starts : a <= b
              lens == { n \in 3..6 :
                          /\ i + n - 1 <= Len(s)
                          /\ \A j \in i..(i + n - 1) : s[j] \in Digits }
              n == CHOOSE a \in lens : \A b \in lens : a >= b
          IN SubSeq(s, i, i + n - 1)

extractBudgetAndReason(t) ==
  LET normalized == SelectSeq(t, LAMBDA c : c \notin BudgetStripChars)
      match == MatchDigits3to6(normalized)
      budgetYen == IF match # <<>> THEN ParseInt(match) ELSE NoNum
      reason == IF Has(t, {"gakusei", "student"}) THEN "student"
                ELSE IF Has(t, {"yosan", "takai", "muri", "budget"}) THEN "budget"
                ELSE IF Has(t, {"tsukaikata", "yoto", "doutsuka"}) THEN "usecase-unclear"
                ELSE Null
  IN [budgetYen |-> budgetYen, reason |-> reason]

\* ------------------------------------------------------ extractYenOffer
FullWidthDigits ==
  {"fw0", "fw1", "fw2", "fw3", "fw4", "fw5", "fw6", "fw7", "fw8", "fw9"}

\* String.fromCharCode(d.charCodeAt(0) - 0xFEE0)
ToHalfWidth(c) ==
  CASE c = "fw0" -> "0" [] c = "fw1" -> "1" [] c = "fw2" -> "2"
    [] c = "fw3" -> "3" [] c = "fw4" -> "4" [] c = "fw5" -> "5"
    [] c = "fw6" -> "6" [] c = "fw7" -> "7" [] c = "fw8" -> "8"
    [] c = "fw9" -> "9" [] OTHER -> c

\* String.prototype.trim over the modelled white space.
RECURSIVE Trim(_)
Trim(s) ==
  IF Len(s) = 0 THEN s
  ELSE IF s[1] = " " THEN Trim(Tail(s))
  ELSE IF s[Len(s)] = " " THEN Trim(SubSeq(s, 1, Len(s) - 1))
  ELSE s

\* The last index of the longest run of characters of set that starts at i
\* (i - 1 when there is none).
RunEnd(s, i, set) ==
  CHOOSE j \in (i - 1)..Len(s) :
    /\ \A k \in i..j : s[k] \in set
    /\ j = Len(s) \/ s[j + 1] \notin set

UnitChars == {"man", "sen", "k", "K"}

\* (\d+(?:\.\d+)?)\s*(man|sen|k|K) matched at i: the integer digits, the
\* fraction digits and the unit, or <<>>.  Giving back the fraction, or a
\* digit, leaves a "." or a digit where \s* or the unit must follow, so the
\* greedy reading is the only one.
UnitMatchAt(s, i) ==
  LET a == RunEnd(s, i, Digits)
      hasFrac == /\ a + 2 <= Len(s)
                 /\ s[a + 1] = "."
                 /\ s[a + 2] \in Digits
      b == IF hasFrac THEN RunEnd(s, a + 2, Digits) ELSE a
      u == RunEnd(s, b + 1, {" "}) + 1
  IN IF i <= Len(s) /\ a >= i /\ u <= Len(s) /\ s[u] \in UnitChars
     THEN << SubSeq(s, i, a),
             IF hasFrac THEN SubSeq(s, a + 2, b) ELSE <<>>,
             s[u] >>
     ELSE <<>>

\* The leftmost match of the unit pattern, or <<>>.
UnitMatch(s) ==
  LET starts == { i \in 1..Len(s) : UnitMatchAt(s, i) # <<>> }
  IN IF starts = {} THEN <<>>
     ELSE UnitMatchAt(s, CHOOSE a \in starts : \A b \in starts : a <= b)

RECURSIVE Pow10(_)
Pow10(k) == IF k = 0 THEN 1 ELSE 10 * Pow10(k - 1)

\* Math.round(parseFloat(int "." frac) * mult): the nearest integer, a half
\* rounded up.  The digit runs reaching here have at most two digits (a run
\* of three is taken by the first pattern), so the product is an integer
\* and the floating-point result rounds to it.
RoundTimes(int, frac, mult) ==
  LET den == Pow10(Len(frac))
      num == (ParseInt(int) * den + ParseInt(frac)) * mult
  IN (2 * num + den) \div (2 * den)

\* (^|\D)(\d{4,6})(\D|$): the leftmost whole run of four to six digits.
MatchWholeRun4to6(s) ==
  LET starts == { i \in 1..Len(s) :
                    /\ s[i] \in Digits
                    /\ i = 1 \/ s[i - 1] \notin Digits
                    /\ RunEnd(s, i, Digits) - i + 1 \in 4..6 }
  IN IF starts = {} THEN <<>>
     ELSE LET i == CHOOSE a \in starts : \A b \in starts : a <= b
          IN SubSeq(s, i, RunEnd(s, i, Digits))

extractYenOffer(raw) ==
  LET half == [i \in 1..Len(raw) |-> ToHalfWidth(raw[i])]
      s == Trim(SelectSeq(half, LAMBDA c : c \notin {"fw,", ","}))
      m1 == MatchDigits3to6(s)
      m2 == UnitMatch(s)
      m3 == MatchWholeRun4to6(s)
  IN IF m1 # <<>> THEN ParseInt(m1)
     ELSE IF m2 # <<>>
       THEN IF m2[3] = "man" THEN RoundTimes(m2[1], m2[2], 10000)
            ELSE RoundTimes(m2[1], m2[2], 1000)
     ELSE IF m3 # <<>> THEN ParseInt(m3)
     ELSE NoNum

\* Labels the completion API may return when no keyword matches.
Labels == {"usecase-unclear", "haggle"}

\* The set of labels classifyObjection can return for a text.
classifyObjection(t) ==
  IF Has(t, {"gakusei", "student"}) THEN {"student"}
  ELSE IF Has(t, {"takai", "yosan", "muri", "yasuku"}) THEN {"budget"}
  ELSE IF Has(t, {"tsukaikata", "yoto", "mada", "doutsuka"}) THEN {"usecase-unclear"}
  ELSE Labels

\* ------------------------------------------------------------- ladders
\* LADDERS with the team floor mistyped above the ladder's last step.
LADDERS_FloorAboveLastStep ==
  [ student |-> [anchor |-> 3000, steps |-> <<2900, 2500, 2000, 1000, 500, 300>>, floor |-> 300],
    indie   |-> [anchor |-> 4900, steps |-> <<3900, 3500, 2900, 2500>>, floor |-> 2500],
    team    |-> [anchor |-> 9900, steps |-> <<7900, 5900>>, floor |-> 6900] ]

LADDERS ==
  [ student |-> [anchor |-> 3000, steps |-> <<2900, 2500, 2000, 1000, 500, 300>>, floor |-> 300],
    indie   |-> [anchor |-> 4900, steps |-> <<3900, 3500, 2900, 2500>>, floor |-> 2500],
    team    |-> [anchor |-> 9900, steps |-> <<7900, 5900>>, floor |-> 5900] ]

\* computeNextOffer that quotes the anchor again, instead of the current
\* offer, when the classification grants no step.
computeNextOffer_RequoteAnchor(session, classification) ==
  LET steps == session.steps
      floor == session.floor_yen
      currentOffer == session.current_offer_yen
      currentIndex == session.step_index
      stepAdvance ==
        IF classification \in {"student", "budget"} THEN 1
        ELSE IF classification = "usecase-unclear"
             THEN (IF Len(steps) > 0 THEN 1 ELSE 0)
             ELSE 0
      nextIndex == Min(currentIndex + stepAdvance, Len(steps) - 1)
      offer == IF stepAdvance > 0 /\ nextIndex >= 0 /\ steps[nextIndex + 1] # 0
               THEN steps[nextIndex + 1] ELSE session.anchor_yen
  IN [ concede |-> stepAdvance > 0 /\ offer < currentOffer,
       offer |-> offer,
       reachedFloor |-> (offer <= floor \/ nextIndex = Len(steps) - 1),
       nextIndex |-> IF Len(steps) > 0 THEN nextIndex ELSE currentIndex,
       classification |-> classification ]

\* steps is 1-indexed here and 0-indexed in the source; step_index keeps the
\* source's numbering (-1 = anchor).
computeNextOffer(session, classification) ==
  LET steps == session.steps
      floor == session.floor_yen
      currentOffer == session.current_offer_yen
      currentIndex == session.step_index
      stepAdvance ==
        IF classification \in {"student", "budget"} THEN 1
        ELSE IF classification = "usecase-unclear"
             THEN (IF Len(steps) > 0 THEN 1 ELSE 0)
             ELSE 0
      nextIndex == Min(currentIndex + stepAdvance, Len(steps) - 1)
      offer == IF nextIndex >= 0 /\ steps[nextIndex + 1] # 0
               THEN steps[nextIndex + 1] ELSE currentOffer
  IN [ concede |-> stepAdvance > 0 /\ offer < currentOffer,
       offer |-> offer,
       reachedFloor |-> (offer <= floor \/ nextIndex = Len(steps) - 1),
       nextIndex |-> IF Len(steps) > 0 THEN nextIndex ELSE currentIndex,
       classification |-> classification ]

\* ------------------------------------------------------- Context store
VARIABLES
  ctx,        \* user -> the 'context' row of profile_memories, parsed
  sessions,   \* the negotiation_sessions table, in insertion order
  now,        \* number of events so far; event n runs at time n
  failures,   \* number of events so far in which a store call failed
  turn,       \* what the last event did: branch, result, reply
  calls,      \* the invocations of handleNegotiationFlow in flight (SpecSteps)
  extraction, \* an amount text and what an extraction function made of it (SpecExtract)
  tasks,      \* the tasks table, in insertion order (SpecTasks, SpecCron)
  reminders,  \* the task_reminders table, in insertion order
  drafts,     \* user -> the user's task_drafts row (step "none": no row)
  clock,      \* the time, in quarters of an hour
  pushes,     \* the reminders pushed to the user, in order, as <<task id, kind>>
  runs,       \* the runs of GET /api/cron/notify in flight (SpecNotify)
  profiles,   \* user -> subscription_status of the user's profiles row (SpecPay)
  secret,     \* whether STRIPE_WEBHOOK_SECRET is set
  checkouts,  \* the checkout sessions Stripe holds, in creation order
  stripe_events, \* the ids of the rows of the stripe_events table
  hooks,      \* the asynchronous bodies of POST /api/stripe/webhook in flight
  paylog,     \* the profile upgrades and upgrade notifications, in order
  http        \* the number of payment requests so far and the last response

funnelVars == <<ctx, sessions, now, failures, turn, calls>>

taskVars == <<tasks, reminders, drafts, clock, pushes>>

payVars == <<profiles, secret, checkouts, stripe_events, hooks, paylog, http>>

vars == <<funnelVars, extraction, taskVars, runs, payVars>>

\* The state the negotiation funnel does not touch.
outside == <<extraction, taskVars, runs, payVars>>

\* No row: every field reads as null (ctx?.field || null).
NoContext ==
  [ present |-> FALSE, last_state |-> Null, purpose |-> NoText, role |-> Null,
    budget_yen |-> NoNum, constraint_reason |-> Null,
    current_session_id |-> NoId ]

getProfileContext(store, userId) == store[userId]

\* saveContext that upserts the patch alone, without the fields of the
\* current row.
saveContext_OverwritesRow(store, userId, patch) ==
  [store EXCEPT ![userId] = Merge(Merge(NoContext, patch), [present |-> TRUE])]

saveContext(store, userId, patch) ==
  LET current == getProfileContext(store, userId)
      merged == Merge(current, patch)
  IN [store EXCEPT ![userId] = Merge(merged, [present |-> TRUE])]

saveState(store, userId, state) ==
  saveContext(store, userId, [last_state |-> state])

\* resetNegotiationContext that leaves current_session_id in place.
resetNegotiationContext_KeepsPointer(store, userId) ==
  saveContext(store, userId,
    [ last_state |-> Null, purpose |-> NoText, role |-> Null,
      budget_yen |-> NoNum, constraint_reason |-> Null ])

resetNegotiationContext(store, userId) ==
  saveContext(store, userId,
    [ last_state |-> Null, purpose |-> NoText, role |-> Null,
      budget_yen |-> NoNum, constraint_reason |-> Null,
      current_session_id |-> NoId ])

\* The patch written when the funnel (re)starts: start phrase, restart from
\* 'close', follow event.
StartPatch ==
  [ last_state |-> "onboarding_q1", purpose |-> NoText, role |-> Null,
    budget_yen |-> NoNum, constraint_reason |-> Null,
    current_session_id |-> NoId ]

decideSegment(store, userId) ==
  LET c == getProfileContext(store, userId)
  IN IF ~c.present THEN "indie"
     ELSE IF c.role = "team" THEN "team"
     ELSE IF c.role = "student" THEN "student"
     ELSE IF c.budget_yen # NoNum /\ c.budget_yen # 0 /\ c.budget_yen <= 1000
          THEN "student"
     ELSE "indie"

\* ------------------------------------------------------- Session store
\* A query that finds no row.
NoSession == [id |-> NoId]

normalizeNegotiationSession(row) ==
  [ id |-> row.id,
    user_id |-> row.user_id,
    state |-> row.state,
    segment |-> row.segment,
    anchor_yen |-> row.anchor_price,
    steps |-> row.meta.steps,
    step_index |-> row.meta.step_index,
    floor_yen |-> row.meta.floor_yen,
    current_offer_yen |-> IF row.current_offer # NoNum THEN row.current_offer
                          ELSE row.anchor_price,
    reason_class |-> row.meta.reason_class,
    meta |-> row.meta ]

\* createNegoSession that opens the session at the ladder's first step
\* instead of its anchor.
createNegoSession_OffersFirstStep(table, userId, segment, ladder) ==
  Append(table,
    [ id |-> Len(table) + 1,
      user_id |-> userId,
      state |-> "open",
      segment |-> segment,
      anchor_price |-> ladder.anchor,
      soft_floor |-> ladder.floor,
      hard_floor |-> ladder.floor,
      current_offer |-> ladder.steps[1],
      concessions_used |-> 0,
      accepted |-> FALSE,
      final_price |-> NoNum,
      completed_at |-> NoNum,
      meta |-> [ segment |-> segment,
                 steps |-> ladder.steps,
                 step_index |-> -1,
                 floor_yen |-> ladder.floor,
                 reason_class |-> Null,
                 conversation_history |-> <<>> ] ])

createNegoSession(table, userId, segment, ladder) ==
  Append(table,
    [ id |-> Len(table) + 1,
      user_id |-> userId,
      state |-> "open",
      segment |-> segment,
      anchor_price |-> ladder.anchor,
      soft_floor |-> ladder.floor,
      hard_floor |-> ladder.floor,
      current_offer |-> ladder.anchor,
      concessions_used |-> 0,
      accepted |-> FALSE,
      final_price |-> NoNum,
      completed_at |-> NoNum,
      meta |-> [ segment |-> segment,
                 steps |-> ladder.steps,
                 step_index |-> -1,
                 floor_yen |-> ladder.floor,
                 reason_class |-> Null,
                 conversation_history |-> <<>> ] ])

getActiveNegotiationSession(table, userId) ==
  LET open == { i \in 1..Len(table) :
                  table[i].user_id = userId /\ table[i].state = "open" }
  IN IF open = {} THEN NoSession
     ELSE normalizeNegotiationSession(
            table[CHOOSE i \in open : \A j \in open : i >= j])

getNegotiationSessionById(table, id) ==
  IF id \in 1..Len(table) THEN normalizeNegotiationSession(table[id])
  ELSE NoSession

updateNegotiationSession(table, id, patch, metaPatch) ==
  LET existing == getNegotiationSessionById(table, id)
  IN IF existing = NoSession THEN table
     ELSE
       LET nextMeta ==
             Merge(Merge(existing.meta, metaPatch),
               [ conversation_history |->
                   IF "conversation_history" \in DOMAIN metaPatch
                   THEN metaPatch.conversation_history
                   ELSE existing.meta.conversation_history ])
           withPatch == Merge(table[id], patch)
           withMeta == IF DOMAIN metaPatch # {}
                       THEN Merge(withPatch, [meta |-> nextMeta])
                       ELSE withPatch
       IN [table EXCEPT ![id] = withMeta]

appendNegotiationHistory(table, id, entries) ==
  IF Len(entries) = 0 THEN table
  ELSE
    LET existing == getNegotiationSessionById(table, id)
    IN IF existing = NoSession THEN table
       ELSE
         LET history == existing.meta.conversation_history
             metaPatch == Merge(existing.meta,
                            [conversation_history |-> history \o entries])
         IN updateNegotiationSession(table, id, <<>>, metaPatch)

\* ------------------------------------------------- Negotiation controller
\* What one run of a handler does when no store call fails: stages[k + 1] is
\* the store after its first k writes, replyAfter the number of writes that
\* precede replyText, amount the price quoted in the reply and checkout the
\* amount of the checkout URL in it.
Outcome(branch, handled, stages, replyAfter, reply, amount, checkout) ==
  [ branch |-> branch, handled |-> handled, stages |-> stages,
    replyAfter |-> replyAfter, reply |-> reply, amount |-> amount,
    checkout |-> checkout ]

Store(c, s) == [c |-> c, s |-> s]

\* History entries.  The content of an entry is abstracted to a tag: "text"
\* for the user's utterance (turn.text records which one it was), and the
\* kind of message for the bot's.
UserEntry(trimmed) == [role |-> "user", content |-> "text"]
BotEntry(kind) == [role |-> "bot", content |-> kind]

\* case 'onboarding_q3'
OnboardingQ3(c0, s0, u, trimmed) ==
  LET ex == extractBudgetAndReason(trimmed)
      c1 == saveContext(c0, u,
              [ budget_yen |-> ex.budgetYen, constraint_reason |-> ex.reason,
                last_state |-> "nego_step" ])
      segment == decideSegment(c1, u)
      ladder == LADDERS[segment]
      s1 == createNegoSession(s0, u, segment, ladder)
      session == normalizeNegotiationSession(s1[Len(s1)])
      c2 == saveContext(c1, u, [current_session_id |-> session.id])
      s2 == appendNegotiationHistory(s1, session.id, <<BotEntry("roast")>>)
  IN Outcome("onboarding_q3", TRUE,
       <<Store(c0, s0), Store(c1, s0), Store(c1, s1), Store(c2, s1), Store(c2, s2)>>,
       4, "offer", session.current_offer_yen, NoNum)

\* NegoAccept that records the price the session opened at as the final price.
NegoAccept_FinalPriceAnchor(c0, s0, u, trimmed, session, t) ==
  LET s1 == updateNegotiationSession(s0, session.id,
              [ state |-> "agreed", accepted |-> TRUE,
                final_price |-> session.anchor_yen,
                completed_at |-> t ],
              Merge(session.meta,
                [ conversation_history |->
                    Append(session.meta.conversation_history, UserEntry(trimmed)) ]))
      updated == getNegotiationSessionById(s1, session.id)
      c1 == saveState(c0, u, "close")
      s2 == appendNegotiationHistory(s1, updated.id, <<BotEntry("acceptance")>>)
  IN Outcome("accept", TRUE,
       <<Store(c0, s0), Store(c0, s1), Store(c1, s1), Store(c1, s2)>>,
       2, "acceptance", updated.current_offer_yen, updated.current_offer_yen)

\* NegoAccept whose checkout URL is built from the session's anchor price.
NegoAccept_CheckoutAnchor(c0, s0, u, trimmed, session, t) ==
  LET s1 == updateNegotiationSession(s0, session.id,
              [ state |-> "agreed", accepted |-> TRUE,
                final_price |-> session.current_offer_yen,
                completed_at |-> t ],
              Merge(session.meta,
                [ conversation_history |->
                    Append(session.meta.conversation_history, UserEntry(trimmed)) ]))
      updated == getNegotiationSessionById(s1, session.id)
      c1 == saveState(c0, u, "close")
      s2 == appendNegotiationHistory(s1, updated.id, <<BotEntry("acceptance")>>)
  IN Outcome("accept", TRUE,
       <<Store(c0, s0), Store(c0, s1), Store(c1, s1), Store(c1, s2)>>,
       2, "acceptance", updated.current_offer_yen, updated.anchor_yen)

\* case 'nego_step', ACCEPT_REGEX matched
NegoAccept(c0, s0, u, trimmed, session, t) ==
  LET s1 == updateNegotiationSession(s0, session.id,
              [ state |-> "agreed", accepted |-> TRUE,
                final_price |-> session.current_offer_yen,
                completed_at |-> t ],
              Merge(session.meta,
                [ conversation_history |->
                    Append(session.meta.conversation_history, UserEntry(trimmed)) ]))
      updated == getNegotiationSessionById(s1, session.id)
      c1 == saveState(c0, u, "close")
      s2 == appendNegotiationHistory(s1, updated.id, <<BotEntry("acceptance")>>)
  IN Outcome("accept", TRUE,
       <<Store(c0, s0), Store(c0, s1), Store(c1, s1), Store(c1, s2)>>,
       2, "acceptance", updated.current_offer_yen, updated.current_offer_yen)

\* NegoObjection that sends no reply when it holds the offer.
NegoObjection_SilentOnHold(c0, s0, u, trimmed, session, classification) ==
  LET c1 == saveContext(c0, u, [constraint_reason |-> classification])
      next == computeNextOffer(session, classification)
      newOffer == next.offer
      nextIndex == next.nextIndex
      s1 == updateNegotiationSession(s0, session.id,
              [current_offer |-> newOffer],
              Merge(session.meta,
                [ step_index |-> nextIndex,
                  reason_class |-> classification,
                  conversation_history |->
                    Append(session.meta.conversation_history, UserEntry(trimmed)) ]))
      updatedSession == getNegotiationSessionById(s1, session.id)
      response == IF ~next.concede THEN "hold"
                  ELSE IF next.reachedFloor THEN "final"
                  ELSE "concede"
      s2 == appendNegotiationHistory(s1, updatedSession.id, <<BotEntry(response)>>)
  IN Outcome(response, TRUE,
       <<Store(c0, s0), Store(c1, s0), Store(c1, s1), Store(c1, s2)>>,
       2, IF next.concede THEN response ELSE Null,
       updatedSession.current_offer_yen, NoNum)

\* case 'nego_step', any other text
NegoObjection(c0, s0, u, trimmed, session, classification) ==
  LET c1 == saveContext(c0, u, [constraint_reason |-> classification])
      next == computeNextOffer(session, classification)
      newOffer == next.offer
      nextIndex == next.nextIndex
      s1 == updateNegotiationSession(s0, session.id,
              [current_offer |-> newOffer],
              Merge(session.meta,
                [ step_index |-> nextIndex,
                  reason_class |-> classification,
                  conversation_history |->
                    Append(session.meta.conversation_history, UserEntry(trimmed)) ]))
      updatedSession == getNegotiationSessionById(s1, session.id)
      response == IF ~next.concede THEN "hold"
                  ELSE IF next.reachedFloor THEN "final"
                  ELSE "concede"
      s2 == appendNegotiationHistory(s1, updatedSession.id, <<BotEntry(response)>>)
  IN Outcome(response, TRUE,
       <<Store(c0, s0), Store(c1, s0), Store(c1, s1), Store(c1, s2)>>,
       2, response, updatedSession.current_offer_yen, NoNum)

\* case 'nego_step'
NegoStep(c0, s0, u, trimmed, classification, t) ==
  LET sessionId == getProfileContext(c0, u).current_session_id
      session == IF sessionId # NoId THEN getNegotiationSessionById(s0, sessionId)
                 ELSE getActiveNegotiationSession(s0, u)
  IN IF session = NoSession
     THEN Outcome("no_session", TRUE,
            <<Store(c0, s0), Store(resetNegotiationContext(c0, u), s0)>>,
            1, "not_found", NoNum, NoNum)
     ELSE IF ACCEPT_REGEX(trimmed)
     THEN NegoAccept(c0, s0, u, trimmed, session, t)
     ELSE NegoObjection(c0, s0, u, trimmed, session, classification)

\* Decline that resets and returns true without the acknowledgement reply.
Decline_NoAcknowledgement(c0, s0, u, t) ==
  LET sessionId == getProfileContext(c0, u).current_session_id
      found == sessionId # NoId /\ getNegotiationSessionById(s0, sessionId) # NoSession
      s1 == IF sessionId # NoId
            THEN updateNegotiationSession(s0, sessionId,
                   [state |-> "cancelled", completed_at |-> t], <<>>)
            ELSE s0
      c1 == resetNegotiationContext(c0, u)
  IN Outcome("decline", TRUE,
       IF found THEN <<Store(c0, s0), Store(c0, s1), Store(c1, s1)>>
       ELSE <<Store(c0, s0), Store(c1, s0)>>,
       IF found THEN 2 ELSE 1, Null, NoNum, NoNum)

\* The decline test that precedes the stage switch.
Decline(c0, s0, u, t) ==
  LET sessionId == getProfileContext(c0, u).current_session_id
      found == sessionId # NoId /\ getNegotiationSessionById(s0, sessionId) # NoSession
      s1 == IF sessionId # NoId
            THEN updateNegotiationSession(s0, sessionId,
                   [state |-> "cancelled", completed_at |-> t], <<>>)
            ELSE s0
      c1 == resetNegotiationContext(c0, u)
  IN Outcome("decline", TRUE,
       IF found THEN <<Store(c0, s0), Store(c0, s1), Store(c1, s1)>>
       ELSE <<Store(c0, s0), Store(c1, s0)>>,
       IF found THEN 2 ELSE 1, "cancelled", NoNum, NoNum)

\* handleNegotiationFlow with the decline test placed before the idle guard.
handleNegotiationFlow_DeclineFirst(c0, s0, u, trimmed, classification, t) ==
  LET state == getProfileContext(c0, u).last_state
      st0 == Store(c0, s0)
      restart == <<st0, Store(saveContext(c0, u, StartPatch), s0)>>
  IN
  IF DECLINE_REGEX(trimmed)
  THEN Decline(c0, s0, u, t)
  ELSE IF state = Null /\ ~NEGOTIATION_START_REGEX(trimmed)
  THEN Outcome("idle", FALSE, <<st0>>, 0, Null, NoNum, NoNum)
  ELSE IF state = Null
  THEN Outcome("start", TRUE, restart, 1, "onboarding_q1", NoNum, NoNum)
  ELSE IF state = "close" /\ (NEGOTIATION_START_REGEX(trimmed) \/ RestartRegex(trimmed))
  THEN Outcome("restart", TRUE, restart, 1, "onboarding_q1", NoNum, NoNum)
  ELSE IF state = "onboarding_q1"
  THEN Outcome("onboarding_q1", TRUE,
         <<st0, Store(saveContext(c0, u,
                  [purpose |-> trimmed, last_state |-> "onboarding_q2"]), s0)>>,
         1, "onboarding_q2", NoNum, NoNum)
  ELSE IF state = "onboarding_q2"
  THEN Outcome("onboarding_q2", TRUE,
         <<st0, Store(saveContext(c0, u,
                  [role |-> classifyRole(trimmed), last_state |-> "onboarding_q3"]), s0)>>,
         1, "onboarding_q3", NoNum, NoNum)
  ELSE IF state = "onboarding_q3"
  THEN OnboardingQ3(c0, s0, u, trimmed)
  ELSE IF state = "nego_step"
  THEN NegoStep(c0, s0, u, trimmed, classification, t)
  ELSE IF state = "close"
  THEN Outcome("close", TRUE, <<st0>>, 0, "close", NoNum, NoNum)
  ELSE Outcome("default", FALSE, <<st0>>, 0, Null, NoNum, NoNum)

\* handleNegotiationFlow whose start branch lacks its return true: the switch
\* then runs on the stale null state and its default returns false.
handleNegotiationFlow_StartReturnsFalse(c0, s0, u, trimmed, classification, t) ==
  LET state == getProfileContext(c0, u).last_state
      st0 == Store(c0, s0)
      restart == <<st0, Store(saveContext(c0, u, StartPatch), s0)>>
  IN
  IF state = Null /\ ~NEGOTIATION_START_REGEX(trimmed)
  THEN Outcome("idle", FALSE, <<st0>>, 0, Null, NoNum, NoNum)
  ELSE IF state = Null
  THEN Outcome("start", FALSE, restart, 1, "onboarding_q1", NoNum, NoNum)
  ELSE IF DECLINE_REGEX(trimmed)
  THEN Decline(c0, s0, u, t)
  ELSE IF state = "close" /\ (NEGOTIATION_START_REGEX(trimmed) \/ RestartRegex(trimmed))
  THEN Outcome("restart", TRUE, restart, 1, "onboarding_q1", NoNum, NoNum)
  ELSE IF state = "onboarding_q1"
  THEN Outcome("onboarding_q1", TRUE,
         <<st0, Store(saveContext(c0, u,
                  [purpose |-> trimmed, last_state |-> "onboarding_q2"]), s0)>>,
         1, "onboarding_q2", NoNum, NoNum)
  ELSE IF state = "onboarding_q2"
  THEN Outcome("onboarding_q2", TRUE,
         <<st0, Store(saveContext(c0, u,
                  [role |-> classifyRole(trimmed), last_state |-> "onboarding_q3"]), s0)>>,
         1, "onboarding_q3", NoNum, NoNum)
  ELSE IF state = "onboarding_q3"
  THEN OnboardingQ3(c0, s0, u, trimmed)
  ELSE IF state = "nego_step"
  THEN NegoStep(c0, s0, u, trimmed, classification, t)
  ELSE IF state = "close"
  THEN Outcome("close", TRUE, <<st0>>, 0, "close", NoNum, NoNum)
  ELSE Outcome("default", FALSE, <<st0>>, 0, Null, NoNum, NoNum)

\* t is the value new Date() yields during the turn.
handleNegotiationFlow(c0, s0, u, trimmed, classification, t) ==
  LET state == getProfileContext(c0, u).last_state
      st0 == Store(c0, s0)
      restart == <<st0, Store(saveContext(c0, u, StartPatch), s0)>>
  IN
  IF state = Null /\ ~NEGOTIATION_START_REGEX(trimmed)
  THEN Outcome("idle", FALSE, <<st0>>, 0, Null, NoNum, NoNum)
  ELSE IF state = Null
  THEN Outcome("start", TRUE, restart, 1, "onboarding_q1", NoNum, NoNum)
  ELSE IF DECLINE_REGEX(trimmed)
  THEN Decline(c0, s0, u, t)
  ELSE IF state = "close" /\ (NEGOTIATION_START_REGEX(trimmed) \/ RestartRegex(trimmed))
  THEN Outcome("restart", TRUE, restart, 1, "onboarding_q1", NoNum, NoNum)
  ELSE IF state = "onboarding_q1"
  THEN Outcome("onboarding_q1", TRUE,
         <<st0, Store(saveContext(c0, u,
                  [purpose |-> trimmed, last_state |-> "onboarding_q2"]), s0)>>,
         1, "onboarding_q2", NoNum, NoNum)
  ELSE IF state = "onboarding_q2"
  THEN Outcome("onboarding_q2", TRUE,
         <<st0, Store(saveContext(c0, u,
                  [role |-> classifyRole(trimmed), last_state |-> "onboarding_q3"]), s0)>>,
         1, "onboarding_q3", NoNum, NoNum)
  ELSE IF state = "onboarding_q3"
  THEN OnboardingQ3(c0, s0, u, trimmed)
  ELSE IF state = "nego_step"
  THEN NegoStep(c0, s0, u, trimmed, classification, t)
  ELSE IF state = "close"
  THEN Outcome("close", TRUE, <<st0>>, 0, "close", NoNum, NoNum)
  ELSE Outcome("default", FALSE, <<st0>>, 0, Null, NoNum, NoNum)

\* --------------------------------------------------------------- events
NoTurn ==
  [ kind |-> "none", user |-> Null, text |-> NoText, stage |-> Null,
    branch |-> Null, handled |-> FALSE, replies |-> 0, reply |-> Null,
    amount |-> NoNum, checkout |-> NoNum, threw |-> FALSE, passed |-> FALSE,
    due |-> NoNum ]

\* Two invocations at most run at a time (two events of one webhook delivery,
\* or two deliveries).
Slots == {1, 2}

\* The local variables of one invocation of handleNegotiationFlow, between
\* two store calls: pc is the store call it makes next, after the point the
\* handler continues from when the current saveContext /
\* updateNegotiationSession / appendNegotiationHistory returns.
NoCall ==
  [ pc |-> "free", user |-> Null, text |-> NoText, label |-> Null,
    c |-> NoContext, session |-> NoSession,
    cur |-> NoContext, patch |-> <<>>, after |-> Null,
    uid |-> NoId, upatch |-> <<>>, umeta |-> <<>>, entries |-> <<>>,
    updated |-> NoSession,
    branch |-> Null, handled |-> FALSE, reply |-> Null,
    amount |-> NoNum, checkout |-> NoNum ]

\* Empty tasks, task_reminders and task_drafts tables.
NoTasks ==
  /\ tasks = <<>>
  /\ reminders = <<>>
  /\ drafts = [u \in Users |-> [step |-> "none", title |-> NoText]]
  /\ clock = 0
  /\ pushes = <<>>

\* No run of the notify endpoint in flight.
NoRun == [pc |-> "free", rows |-> <<>>, at |-> NoNum]

NoRuns == runs = [i \in Slots |-> NoRun]

\* No request body in flight.
NoHook == [pc |-> "free", event |-> Null]

\* The response of the last payment request: n counts the requests.
NoResponse == [n |-> 0, route |-> Null, sig |-> Null, status |-> 0]

\* Every profile on the free plan, the webhook secret set, nothing at Stripe.
NoPayments ==
  /\ profiles = [u \in Users |-> "free"]
  /\ secret = TRUE
  /\ checkouts = <<>>
  /\ stripe_events = {}
  /\ hooks = [i \in Slots |-> NoHook]
  /\ paylog = <<>>
  /\ http = NoResponse

\* No amount text under extraction.
NoExtraction ==
  [pc |-> "none", fn |-> Null, raw |-> NoText, value |-> NoNum, again |-> NoNum]

Init ==
  /\ ctx = [u \in Users |-> NoContext]
  /\ sessions = <<>>
  /\ now = 0
  /\ failures = 0
  /\ turn = NoTurn
  /\ calls = [i \in Slots |-> NoCall]
  /\ extraction = NoExtraction
  /\ NoTasks
  /\ NoRuns
  /\ NoPayments

\* Every event advances the time; a failing one uses up a failure.
Tick(failing) ==
  /\ now < MaxTime
  /\ now' = now + 1
  /\ failing => failures < MaxFailures
  /\ failures' = IF failing THEN failures + 1 ELSE failures
  /\ UNCHANGED <<calls, outside>>

\* A text message of user u reaches handleEvent, which consults
\* handleNegotiationFlow first and passes the message on to the memo, task,
\* draft and AI-chat handlers only when it returns false (passed).  failing = FALSE: every store call succeeds.
\* failing = TRUE: the call that performs the turn's write at + 1, or a read
\* before it, fails; the handler throws with its first at writes committed.
TextMessage(u, text, classification, failing, at) ==
  /\ Tick(failing)
  /\ classification \in classifyObjection(text)
  /\ ~failing => at = 0
  /\ \E r \in {handleNegotiationFlow(ctx, sessions, u, text, classification, now + 1)} :
       LET writes == Len(r.stages) - 1
           done == IF failing THEN at ELSE writes
           replied == r.reply # Null /\ (~failing \/ done >= r.replyAfter)
       IN /\ failing => (at = 0 \/ at < writes)
          /\ ctx' = r.stages[done + 1].c
          /\ sessions' = r.stages[done + 1].s
          /\ turn' = [ kind |-> "text", user |-> u, text |-> text,
                       stage |-> getProfileContext(ctx, u).last_state,
                       branch |-> r.branch,
                       handled |-> IF failing THEN FALSE ELSE r.handled,
                       replies |-> IF replied THEN 1 ELSE 0,
                       reply |-> IF replied THEN r.reply ELSE Null,
                       amount |-> IF replied THEN r.amount ELSE NoNum,
                       checkout |-> IF replied THEN r.checkout ELSE NoNum,
                       threw |-> failing,
                       passed |-> ~failing /\ ~r.handled,
                       due |-> NoNum ]

\* handleEvent, event.type === 'follow': one write, then the welcome reply.
FollowEvent(u, failing) ==
  /\ Tick(failing)
  /\ ctx' = IF failing THEN ctx ELSE saveContext(ctx, u, StartPatch)
  /\ turn' = [NoTurn EXCEPT !.kind = "follow", !.user = u,
                !.stage = getProfileContext(ctx, u).last_state,
                !.branch = "follow",
                !.replies = IF failing THEN 0 ELSE 1,
                !.reply = IF failing THEN Null ELSE "onboarding_q1",
                !.threw = failing]
  /\ UNCHANGED sessions

\* GET /debug/reset-negotiation: one UPDATE ... WHERE state = 'open'.
DebugResetNegotiation(failing) ==
  /\ Tick(failing)
  /\ sessions' =
       IF failing THEN sessions
       ELSE [ i \in 1..Len(sessions) |->
                IF sessions[i].state = "open"
                THEN Merge(sessions[i], [state |-> "cancelled"])
                ELSE sessions[i] ]
  /\ turn' = [NoTurn EXCEPT !.kind = "reset", !.branch = "reset", !.threw = failing]
  /\ UNCHANGED ctx

Next ==
  \/ \E u \in Users, text \in Texts, classification \in Labels \cup {"budget"},
        failing \in BOOLEAN, at \in 0..3 :
       TextMessage(u, text, classification, failing, at)
  \/ \E u \in Users, failing \in BOOLEAN : FollowEvent(u, failing)
  \/ \E failing \in BOOLEAN : DebugResetNegotiation(failing)

Spec == Init /\ [][Next]_vars

\* ------------------------------------------- interleaved invocations
\* SpecSteps: the same handler, one store call (one await on Supabase) per
\* step, with up to two invocations for the same user in flight.  /webhook
\* starts handleEvent for every event of a delivery at once (Promise.all) and
\* deliveries overlap, so the store calls of two invocations interleave in
\* any order.  saveContext is a read followed by an upsert of the merged
\* row; updateNegotiationSession is a read followed by an update of the
\* patched columns and of the whole meta.  No store call fails here.

\* Number of text messages in a run of SpecSteps.
MaxCalls == 6

\* Texts of SpecSteps: a start phrase, a decline phrase, an acceptance, an
\* objection with a keyword.
StepTexts == { <<"kakaku">>, <<"yameru">>, <<"hai", "desu">>, <<"takai">> }

ResetPatch ==
  [ last_state |-> Null, purpose |-> NoText, role |-> Null,
    budget_yen |-> NoNum, constraint_reason |-> Null,
    current_session_id |-> NoId ]

\* The handler calls saveContext(patch) and continues at after.
GoSaveContext(call, patch, after) ==
  [call EXCEPT !.pc = "saveContext_read", !.patch = patch, !.after = after]

\* The handler calls updateNegotiationSession(id, patch, metaPatch).
GoUpdateSession(call, id, patch, metaPatch, after) ==
  [call EXCEPT !.pc = "updateSession_read", !.uid = id, !.upatch = patch,
               !.umeta = metaPatch, !.after = after]

\* The handler calls appendNegotiationHistory(id, entries).
GoAppendHistory(call, id, entries, after) ==
  [call EXCEPT !.pc = "appendHistory_read", !.uid = id, !.entries = entries,
               !.after = after]

\* What the handler will reply and return once its remaining calls are done.
Answer(call, branch, handled, reply, amount, checkout) ==
  [call EXCEPT !.branch = branch, !.handled = handled, !.reply = reply,
               !.amount = amount, !.checkout = checkout]

\* The code between the return of one store call and the next store call.
Resume(call, t) ==
  CASE call.after = "return" -> [call EXCEPT !.pc = "return"]
    [] call.after = "decline_reset" ->
         GoSaveContext(call, ResetPatch, "return")
    [] call.after = "q3_segment" -> [call EXCEPT !.pc = "decideSegment_read"]
    [] call.after = "q3_append" ->
         GoAppendHistory(
           Answer(call, "onboarding_q3", TRUE, "offer",
                  call.session.current_offer_yen, NoNum),
           call.session.id, <<BotEntry("roast")>>, "return")
    [] call.after = "accept_state" ->
         GoSaveContext(call, [last_state |-> "close"], "accept_append")
    [] call.after = "accept_append" ->
         GoAppendHistory(
           Answer(call, "accept", TRUE, "acceptance",
                  call.updated.current_offer_yen, call.updated.current_offer_yen),
           call.updated.id, <<BotEntry("acceptance")>>, "return")
    [] call.after = "obj_update" ->
         LET next == computeNextOffer(call.session, call.label)
         IN GoUpdateSession(
              Answer(call, IF ~next.concede THEN "hold"
                           ELSE IF next.reachedFloor THEN "final"
                           ELSE "concede", TRUE, Null, NoNum, NoNum),
              call.session.id, [current_offer |-> next.offer],
              Merge(call.session.meta,
                [ step_index |-> next.nextIndex,
                  reason_class |-> call.label,
                  conversation_history |->
                    Append(call.session.meta.conversation_history,
                           UserEntry(call.text)) ]),
              "obj_append")
    [] call.after = "obj_append" ->
         GoAppendHistory(
           Answer(call, call.branch, TRUE, call.branch,
                  call.updated.current_offer_yen, NoNum),
           call.updated.id, <<BotEntry(call.branch)>>, "return")

\* The branch handleNegotiationFlow takes on the context it has read.
Dispatch(call, t) ==
  LET state == call.c.last_state
      trimmed == call.text
      restart == GoSaveContext(
                   Answer(call, "start", TRUE, "onboarding_q1", NoNum, NoNum),
                   StartPatch, "return")
  IN
  IF state = Null /\ ~NEGOTIATION_START_REGEX(trimmed)
  THEN [Answer(call, "idle", FALSE, Null, NoNum, NoNum) EXCEPT !.pc = "return"]
  ELSE IF state = Null
  THEN restart
  ELSE IF DECLINE_REGEX(trimmed)
  THEN LET a == Answer(call, "decline", TRUE, "cancelled", NoNum, NoNum)
       IN IF call.c.current_session_id # NoId
          THEN GoUpdateSession(a, call.c.current_session_id,
                 [state |-> "cancelled", completed_at |-> t], <<>>, "decline_reset")
          ELSE GoSaveContext(a, ResetPatch, "return")
  ELSE IF state = "close" /\ (NEGOTIATION_START_REGEX(trimmed) \/ RestartRegex(trimmed))
  THEN [restart EXCEPT !.branch = "restart"]
  ELSE IF state = "onboarding_q1"
  THEN GoSaveContext(
         Answer(call, "onboarding_q1", TRUE, "onboarding_q2", NoNum, NoNum),
         [purpose |-> trimmed, last_state |-> "onboarding_q2"], "return")
  ELSE IF state = "onboarding_q2"
  THEN GoSaveContext(
         Answer(call, "onboarding_q2", TRUE, "onboarding_q3", NoNum, NoNum),
         [role |-> classifyRole(trimmed), last_state |-> "onboarding_q3"], "return")
  ELSE IF state = "onboarding_q3"
  THEN LET ex == extractBudgetAndReason(trimmed)
       IN GoSaveContext(call,
            [ budget_yen |-> ex.budgetYen, constraint_reason |-> ex.reason,
              last_state |-> "nego_step" ], "q3_segment")
  ELSE IF state = "nego_step"
  THEN [call EXCEPT !.pc = "negoStep_read"]
  ELSE IF state = "close"
  THEN [Answer(call, "close", TRUE, "close", NoNum, NoNum) EXCEPT !.pc = "return"]
  ELSE [Answer(call, "default", FALSE, Null, NoNum, NoNum) EXCEPT !.pc = "return"]

InitSteps == Init

\* A text message arrives and its invocation starts, in the first free slot.
Receive(i, u, text, label) ==
  /\ calls[i].pc = "free"
  /\ \A j \in Slots : calls[j].pc = "free" => i <= j
  /\ now < MaxCalls
  /\ label \in classifyObjection(text)
  /\ now' = now + 1
  /\ calls' = [calls EXCEPT ![i] =
                 [NoCall EXCEPT !.pc = "getProfileContext", !.user = u,
                                !.text = text, !.label = label]]
  /\ UNCHANGED <<ctx, sessions, failures, turn, outside>>

\* const ctx = await getProfileContext(profile.id), and the branch taken.
FlowReadContext(i) ==
  /\ calls[i].pc = "getProfileContext"
  /\ calls' = [calls EXCEPT ![i] =
                 Dispatch([calls[i] EXCEPT !.c = getProfileContext(ctx, calls[i].user)],
                          now)]
  /\ UNCHANGED <<ctx, sessions, now, failures, turn, outside>>

\* saveContext: const current = await getProfileContext(userId)
SaveContextRead(i) ==
  /\ calls[i].pc = "saveContext_read"
  /\ calls' = [calls EXCEPT ![i] =
                 [calls[i] EXCEPT !.pc = "saveContext_upsert",
                                  !.cur = getProfileContext(ctx, calls[i].user)]]
  /\ UNCHANGED <<ctx, sessions, now, failures, turn, outside>>

\* saveContext: upsert of {...current, ...patch}
SaveContextUpsert(i) ==
  /\ calls[i].pc = "saveContext_upsert"
  /\ ctx' = [ctx EXCEPT ![calls[i].user] =
               Merge(Merge(calls[i].cur, calls[i].patch), [present |-> TRUE])]
  /\ calls' = [calls EXCEPT ![i] =
                 Resume([calls[i] EXCEPT !.cur = NoContext, !.patch = <<>>], now)]
  /\ UNCHANGED <<sessions, now, failures, turn, outside>>

\* decideSegment: const ctx = await getProfileContext(userId); the segment is
\* kept in label, which onboarding_q3 does not use otherwise.
DecideSegmentRead(i) ==
  /\ calls[i].pc = "decideSegment_read"
  /\ calls' = [calls EXCEPT ![i] =
                 [calls[i] EXCEPT !.pc = "createNegoSession",
                                  !.label = decideSegment(ctx, calls[i].user)]]
  /\ UNCHANGED <<ctx, sessions, now, failures, turn, outside>>

\* createNegoSession: the insert; then saveContext({current_session_id}).
CreateSessionInsert(i) ==
  /\ calls[i].pc = "createNegoSession"
  /\ sessions' = createNegoSession(sessions, calls[i].user, calls[i].label,
                                   LADDERS[calls[i].label])
  /\ calls' = [calls EXCEPT ![i] =
                 LET session == normalizeNegotiationSession(sessions'[Len(sessions')])
                 IN GoSaveContext([calls[i] EXCEPT !.session = session],
                      [current_session_id |-> session.id], "q3_append")]
  /\ UNCHANGED <<ctx, now, failures, turn, outside>>

\* case 'nego_step': the session read, and the branch taken on it.
NegoStepRead(i) ==
  /\ calls[i].pc = "negoStep_read"
  /\ LET call == calls[i]
         sessionId == call.c.current_session_id
         session == IF sessionId # NoId
                    THEN getNegotiationSessionById(sessions, sessionId)
                    ELSE getActiveNegotiationSession(sessions, call.user)
     IN calls' = [calls EXCEPT ![i] =
          IF session = NoSession
          THEN GoSaveContext(
                 Answer(call, "no_session", TRUE, "not_found", NoNum, NoNum),
                 ResetPatch, "return")
          ELSE IF ACCEPT_REGEX(call.text)
          THEN GoUpdateSession([call EXCEPT !.session = session], session.id,
                 [ state |-> "agreed", accepted |-> TRUE,
                   final_price |-> session.current_offer_yen,
                   completed_at |-> now ],
                 Merge(session.meta,
                   [ conversation_history |->
                       Append(session.meta.conversation_history,
                              UserEntry(call.text)) ]),
                 "accept_state")
          ELSE GoSaveContext([call EXCEPT !.session = session],
                 [constraint_reason |-> call.label], "obj_update")]
  /\ UNCHANGED <<ctx, sessions, now, failures, turn, outside>>

\* appendNegotiationHistory: const existing = await getNegotiationSessionById(id)
AppendHistoryRead(i) ==
  /\ calls[i].pc = "appendHistory_read"
  /\ LET call == calls[i]
         existing == getNegotiationSessionById(sessions, call.uid)
     IN calls' = [calls EXCEPT ![i] =
          IF existing = NoSession
          THEN Resume([call EXCEPT !.uid = NoId, !.entries = <<>>], now)
          ELSE GoUpdateSession([call EXCEPT !.entries = <<>>], call.uid, <<>>,
                 Merge(existing.meta,
                   [ conversation_history |->
                       existing.meta.conversation_history \o call.entries ]),
                 call.after)]
  /\ UNCHANGED <<ctx, sessions, now, failures, turn, outside>>

\* updateNegotiationSession: const existing = await getNegotiationSessionById(id);
\* nextMeta is computed from it and kept in umeta.
UpdateSessionRead(i) ==
  /\ calls[i].pc = "updateSession_read"
  /\ LET call == calls[i]
         existing == getNegotiationSessionById(sessions, call.uid)
     IN calls' = [calls EXCEPT ![i] =
          IF existing = NoSession
          THEN Resume([call EXCEPT !.uid = NoId, !.upatch = <<>>, !.umeta = <<>>,
                                   !.updated = NoSession], now)
          ELSE [call EXCEPT !.pc = "updateSession_update",
                  !.umeta =
                    IF DOMAIN call.umeta = {} THEN <<>>
                    ELSE Merge(Merge(existing.meta, call.umeta),
                           [ conversation_history |->
                               IF "conversation_history" \in DOMAIN call.umeta
                               THEN call.umeta.conversation_history
                               ELSE existing.meta.conversation_history ])]]
  /\ UNCHANGED <<ctx, sessions, now, failures, turn, outside>>

\* updateNegotiationSession: the update of the patched columns (and of meta
\* when a metaPatch was given), returning the row as stored.
UpdateSessionWrite(i) ==
  /\ calls[i].pc = "updateSession_update"
  /\ LET call == calls[i]
         withPatch == Merge(sessions[call.uid], call.upatch)
         row == IF DOMAIN call.umeta # {}
                THEN Merge(withPatch, [meta |-> call.umeta])
                ELSE withPatch
     IN /\ sessions' = [sessions EXCEPT ![call.uid] = row]
        /\ calls' = [calls EXCEPT ![i] =
             Resume([call EXCEPT !.uid = NoId, !.upatch = <<>>, !.umeta = <<>>,
                                 !.updated = normalizeNegotiationSession(row)], now)]
  /\ UNCHANGED <<ctx, now, failures, turn, outside>>

\* replyText (when the branch replies) and return: the invocation ends.  Its
\* answer is read off calls[i] while pc = "return".
Return(i) ==
  /\ calls[i].pc = "return"
  /\ calls' = [calls EXCEPT ![i] = NoCall]
  /\ UNCHANGED <<ctx, sessions, now, failures, turn, outside>>

NextSteps ==
  \/ \E i \in Slots, u \in Users, text \in StepTexts, label \in Labels \cup {"budget"} :
       Receive(i, u, text, label)
  \/ \E i \in Slots : FlowReadContext(i)
  \/ \E i \in Slots : SaveContextRead(i)
  \/ \E i \in Slots : SaveContextUpsert(i)
  \/ \E i \in Slots : DecideSegmentRead(i)
  \/ \E i \in Slots : CreateSessionInsert(i)
  \/ \E i \in Slots : NegoStepRead(i)
  \/ \E i \in Slots : AppendHistoryRead(i)
  \/ \E i \in Slots : UpdateSessionRead(i)
  \/ \E i \in Slots : UpdateSessionWrite(i)
  \/ \E i \in Slots : Return(i)

SpecSteps == InitSteps /\ [][NextSteps]_vars

\* ------------------------------------------- the extraction functions
\* Length of the amount texts drawn from AmountChars.
MaxAmountLen == 3

AmountChars == {"0", "1", "2", ".", ",", "man", "k", "fw1", "yen"}

\* "1.2man", "12000", full-width "12,000", "12k", "3man".
AmountExamples ==
  { <<"1", ".", "2", "man">>,
    <<"1", "2", "0", "0", "0">>,
    <<"fw1", "fw2", "fw,", "fw0", "fw0", "fw0">>,
    <<"1", "2", "k">>,
    <<"3", "man">> }

AmountTexts ==
  AmountExamples \cup
  UNION { [1..n -> AmountChars] : n \in 1..MaxAmountLen }

ExtractFns == {"extractBudgetAndReason", "extractYenOffer"}

ApplyExtract(fn, t) ==
  IF fn = "extractBudgetAndReason" THEN extractBudgetAndReason(t).budgetYen
  ELSE extractYenOffer(t)

\* String(n) of a non-negative integer.
RECURSIVE NumberToString(_)
NumberToString(n) ==
  LET d == CHOOSE c \in Digits : DigitVal(c) = n % 10
  IN IF n < 10 THEN <<d>> ELSE Append(NumberToString(n \div 10), d)

InitExtract ==
  /\ ctx = [u \in Users |-> NoContext]
  /\ sessions = <<>>
  /\ now = 0
  /\ failures = 0
  /\ turn = NoTurn
  /\ calls = [i \in Slots |-> NoCall]
  /\ NoTasks
  /\ NoRuns
  /\ NoPayments
  /\ \E t \in AmountTexts :
       extraction = [NoExtraction EXCEPT !.pc = "input", !.raw = t]

\* The function is called on the text.
Extract(fn) ==
  /\ extraction.pc = "input"
  /\ extraction' = [extraction EXCEPT !.pc = "extracted", !.fn = fn,
                      !.value = ApplyExtract(fn, extraction.raw)]
  /\ UNCHANGED <<funnelVars, taskVars, runs, payVars>>

\* The function is called on the decimal string of the number it returned.
Reextract ==
  /\ extraction.pc = "extracted"
  /\ extraction.value # NoNum
  /\ extraction' = [extraction EXCEPT !.pc = "reextracted",
                      !.again = ApplyExtract(extraction.fn,
                                             NumberToString(extraction.value))]
  /\ UNCHANGED <<funnelVars, taskVars, runs, payVars>>

NextExtract ==
  \/ \E fn \in ExtractFns : Extract(fn)
  \/ Reextract

SpecExtract == InitExtract /\ [][NextExtract]_vars

\* ------------------------------------------------- tasks and reminders
\* Number of tasks created in a run.
MaxTasks == 2
\* Last quarter of an hour of a run.
MaxClock == 4

\* 30 minutes, in quarters of an hour.
ThirtyMinutes == 2

\* The deadlines parseNaturalDateJST can return; NoNum: the text is not a date.
DueTimes == 0..MaxClock

\* Which insert of a task creation fails.
FailingInserts == {"none", "tasks", "task_reminders"}

\* The two rows of supabase.from('task_reminders').insert([...]).
NewReminders(id, end) ==
  << [task_id |-> id, run_at |-> end - ThirtyMinutes, kind |-> "T-30", sent_at |-> NoNum],
     [task_id |-> id, run_at |-> end, kind |-> "T0", sent_at |-> NoNum] >>

\* The tasks insert and the task_reminders insert of createTaskAndReminders,
\* handleTaskCommand and createTaskWithReminders.  The result of the second
\* insert is not looked at: when it fails the task stays without reminders.
InsertTaskAndReminders(u, title, end, failing) ==
  /\ failing # "tasks"
  /\ Len(tasks) < MaxTasks
  /\ tasks' = Append(tasks, [ user_id |-> u, title |-> title, end_at |-> end,
                              status |-> "open" ])
  /\ reminders' = IF failing = "task_reminders" THEN reminders
                  ELSE reminders \o NewReminders(Len(tasks) + 1, end)

\* The texts a user sends as a title: a word, the word after 'task', and
\* 'task' alone ("task" stands for the three katakana of the start trigger).
\* None of them is a command handleEvent takes before the draft flow.
TitleTexts == { <<"report">>, <<"task", "report">>, <<"task">> }

\* The title a one-line command carries.
CommandTitles == { <<"report">> }

\* text.replace(/^(task[:]?\s*)/i, '').trim(): a leading 'task', a colon
\* after it and the blanks after that are dropped.
draftTitle(text) ==
  LET a == IF Len(text) > 0 /\ text[1] = "task" THEN Tail(text) ELSE text
      b == IF Len(a) < Len(text) /\ Len(a) > 0 /\ a[1] = ":" THEN Tail(a) ELSE a
  IN Trim(b)

\* What a message to the task handlers did.  The funnel has returned false.
TaskTurn(u, branch, text, parsed, threw) ==
  [NoTurn EXCEPT !.kind = "text", !.user = u, !.branch = branch,
                 !.text = text, !.due = parsed, !.passed = TRUE,
                 !.replies = IF threw THEN 0 ELSE 1, !.threw = threw]

\* The text 'task' without a draft: upsertDraft inserts one at ask_title.
DraftStart(u) ==
  /\ drafts[u].step = "none"
  /\ drafts' = [drafts EXCEPT ![u] = [step |-> "ask_title", title |-> NoText]]
  /\ turn' = TaskTurn(u, "draft_start", <<"task">>, NoNum, FALSE)
  /\ UNCHANGED <<ctx, sessions, now, failures, calls, extraction, runs, payVars>>
  /\ UNCHANGED <<tasks, reminders, clock, pushes>>

\* A text while the draft waits for the title: an empty title is refused.
DraftTitle(u, text) ==
  /\ drafts[u].step = "ask_title"
  /\ LET title == draftTitle(text)
     IN drafts' = IF title = <<>> THEN drafts
                  ELSE [drafts EXCEPT ![u] = [step |-> "ask_due", title |-> title]]
  /\ turn' = TaskTurn(u, "draft_title", text, NoNum, FALSE)
  /\ UNCHANGED <<ctx, sessions, now, failures, calls, extraction, runs, payVars>>
  /\ UNCHANGED <<tasks, reminders, clock, pushes>>

\* A text while the draft waits for the deadline.  An unreadable or past
\* date is refused; a failing tasks insert throws before clearDraft.
DraftDue(u, parsed, failing) ==
  /\ drafts[u].step = "ask_due"
  /\ IF parsed = NoNum \/ parsed < clock
     THEN /\ UNCHANGED <<tasks, reminders, drafts>>
          /\ turn' = TaskTurn(u, "draft_due", NoText, parsed, FALSE)
     ELSE IF failing = "tasks"
     THEN /\ UNCHANGED <<tasks, reminders, drafts>>
          /\ turn' = TaskTurn(u, "draft_due", NoText, parsed, TRUE)
     ELSE /\ InsertTaskAndReminders(u, drafts[u].title, parsed, failing)
          /\ drafts' = [drafts EXCEPT ![u] = [step |-> "none", title |-> NoText]]
          /\ turn' = TaskTurn(u, "draft_due", NoText, parsed, FALSE)
  /\ UNCHANGED <<ctx, sessions, now, failures, calls, extraction, runs, payVars>>
  /\ UNCHANGED <<clock, pushes>>

\* The one-line command 'task: title / end: date'.
handleTaskCommand(u, title, parsed, failing) ==
  /\ parsed # NoNum
  /\ InsertTaskAndReminders(u, title, parsed, failing)
  /\ turn' = TaskTurn(u, "task_command", title, parsed, FALSE)
  /\ UNCHANGED <<ctx, sessions, now, failures, calls, extraction, runs, payVars>>
  /\ UNCHANGED <<drafts, clock, pushes>>

\* handleTaskOperation, complete: the row is set to done whatever its status,
\* then its unsent reminders are deleted.
CompleteTask(id) ==
  /\ id \in 1..Len(tasks)
  /\ tasks[id].status # "deleted"
  /\ tasks' = [tasks EXCEPT ![id].status = "done"]
  /\ reminders' = SelectSeq(reminders,
                    LAMBDA r : ~(r.task_id = id /\ r.sent_at = NoNum))
  /\ turn' = TaskTurn(tasks[id].user_id, "complete", NoText, NoNum, FALSE)
  /\ UNCHANGED <<ctx, sessions, now, failures, calls, extraction, runs, payVars>>
  /\ UNCHANGED <<drafts, clock, pushes>>

\* handleTaskOperation, delete: the row goes, its reminders with it
\* (ON DELETE CASCADE).  "deleted" stands for the missing row.
DeleteTask(id) ==
  /\ id \in 1..Len(tasks)
  /\ tasks[id].status # "deleted"
  /\ tasks' = [tasks EXCEPT ![id].status = "deleted"]
  /\ reminders' = SelectSeq(reminders, LAMBDA r : r.task_id # id)
  /\ turn' = TaskTurn(tasks[id].user_id, "delete", NoText, NoNum, FALSE)
  /\ UNCHANGED <<ctx, sessions, now, failures, calls, extraction, runs, payVars>>
  /\ UNCHANGED <<drafts, clock, pushes>>

\* The reminders GET /api/cron/notify selects: due and unsent.
DueReminders ==
  { i \in 1..Len(reminders) :
      reminders[i].run_at <= clock /\ reminders[i].sent_at = NoNum }

\* The pushes of one run over the rows from index i on, in row order.
RECURSIVE PushesFrom(_)
PushesFrom(i) ==
  IF i > Len(reminders) THEN <<>>
  ELSE IF i \in DueReminders /\ tasks[reminders[i].task_id].status = "open"
  THEN <<<<reminders[i].task_id, reminders[i].kind>>>> \o PushesFrom(i + 1)
  ELSE PushesFrom(i + 1)

\* GET /api/cron/notify: every selected reminder is marked sent; it is
\* pushed first only when its task is still open.
CronNotify ==
  /\ reminders' = [ i \in 1..Len(reminders) |->
                      IF i \in DueReminders
                      THEN [reminders[i] EXCEPT !.sent_at = clock]
                      ELSE reminders[i] ]
  /\ pushes' = pushes \o PushesFrom(1)
  /\ UNCHANGED <<funnelVars, extraction, runs, payVars, tasks, drafts, clock>>

\* GET /api/cron/expire: open tasks whose end_at is before now expire.
CronExpire ==
  /\ tasks' = [ i \in 1..Len(tasks) |->
                  IF tasks[i].end_at < clock /\ tasks[i].status = "open"
                  THEN [tasks[i] EXCEPT !.status = "expired"]
                  ELSE tasks[i] ]
  /\ UNCHANGED <<funnelVars, extraction, runs, payVars, reminders, drafts, clock, pushes>>

\* A quarter of an hour passes.
ClockTick ==
  /\ clock < MaxClock
  /\ clock' = clock + 1
  /\ UNCHANGED <<funnelVars, extraction, runs, payVars, tasks, reminders, drafts, pushes>>

InitTasks == Init

NextTasksWith(failings) ==
  \/ \E u \in Users : DraftStart(u)
  \/ \E u \in Users, text \in TitleTexts : DraftTitle(u, text)
  \/ \E u \in Users, parsed \in DueTimes \cup {NoNum}, failing \in failings :
       DraftDue(u, parsed, failing)
  \/ \E u \in Users, title \in CommandTitles, parsed \in DueTimes \cup {NoNum},
          failing \in failings :
       handleTaskCommand(u, title, parsed, failing)
  \/ \E id \in 1..MaxTasks : CompleteTask(id)
  \/ \E id \in 1..MaxTasks : DeleteTask(id)
  \/ CronNotify
  \/ CronExpire
  \/ ClockTick

NextTasks == NextTasksWith(FailingInserts)

SpecTasks == InitTasks /\ [][NextTasks]_vars

\* No insert fails; time passes and each cron endpoint keeps being called.
NextCron == NextTasksWith({"none"})

SpecCron ==
  /\ InitTasks
  /\ [][NextCron]_vars
  /\ WF_vars(ClockTick)
  /\ WF_vars(CronNotify)
  /\ WF_vars(CronExpire)

\* ------------------------------------------------- notify runs, stepwise
\* SpecNotify: GET /api/cron/notify one await per step (the select, each
\* push, each update of sent_at), with up to two runs in flight and the task
\* handlers and the expiry between their steps.  The update of sent_at is
\* not checked by the code; here it may fail.

\* Number of tasks in a run of SpecNotify.
MaxNotifyTasks == 1

\* The rows of the select from index i on, in row order: each due unsent
\* reminder with the status its task has at the time of the select.
RECURSIVE SelectedFrom(_)
SelectedFrom(i) ==
  IF i > Len(reminders) THEN <<>>
  ELSE IF i \in DueReminders
  THEN << [ task_id |-> reminders[i].task_id, kind |-> reminders[i].kind,
            status |-> tasks[reminders[i].task_id].status ] >>
         \o SelectedFrom(i + 1)
  ELSE SelectedFrom(i + 1)

\* const now = ...; the select of the due unsent reminders.  A run that
\* selects nothing does nothing.
NotifySelect(r) ==
  /\ runs[r].pc = "free"
  /\ \A q \in Slots : runs[q].pc = "free" => r <= q
  /\ SelectedFrom(1) # <<>>
  /\ runs' = [runs EXCEPT ![r] =
                [pc |-> "push", rows |-> SelectedFrom(1), at |-> clock]]
  /\ UNCHANGED <<funnelVars, extraction, payVars, taskVars>>

\* The head of the loop body: client.pushMessage when the selected row says
\* the task is open, nothing otherwise.
NotifyPush(r) ==
  /\ runs[r].pc = "push"
  /\ LET row == Head(runs[r].rows)
     IN pushes' = IF row.status = "open"
                  THEN Append(pushes, <<row.task_id, row.kind>>)
                  ELSE pushes
  /\ runs' = [runs EXCEPT ![r].pc = "mark"]
  /\ UNCHANGED <<funnelVars, extraction, payVars>>
  /\ UNCHANGED <<tasks, reminders, drafts, clock>>

\* update({sent_at: now}).eq('id', reminder.id), its result not looked at,
\* and the loop going on with the next row.
NotifyMark(r, failing) ==
  /\ runs[r].pc = "mark"
  /\ failing => failures < MaxFailures
  /\ failures' = IF failing THEN failures + 1 ELSE failures
  /\ LET row == Head(runs[r].rows)
         rest == Tail(runs[r].rows)
     IN /\ reminders' =
             IF failing THEN reminders
             ELSE [ i \in 1..Len(reminders) |->
                      IF /\ reminders[i].task_id = row.task_id
                         /\ reminders[i].kind = row.kind
                      THEN [reminders[i] EXCEPT !.sent_at = runs[r].at]
                      ELSE reminders[i] ]
        /\ runs' = [runs EXCEPT ![r] =
                      IF rest = <<>> THEN NoRun
                      ELSE [runs[r] EXCEPT !.pc = "push", !.rows = rest]]
  /\ UNCHANGED <<ctx, sessions, now, turn, calls, extraction, payVars>>
  /\ UNCHANGED <<tasks, drafts, clock, pushes>>

\* The one-line command, while the run has room for a task.
NotifyTaskCommand(u, title, parsed) ==
  /\ Len(tasks) < MaxNotifyTasks
  /\ handleTaskCommand(u, title, parsed, "none")

NextNotify ==
  \/ \E u \in Users, title \in CommandTitles, parsed \in DueTimes :
       NotifyTaskCommand(u, title, parsed)
  \/ \E id \in 1..MaxTasks : CompleteTask(id)
  \/ \E id \in 1..MaxTasks : DeleteTask(id)
  \/ CronExpire
  \/ ClockTick
  \/ \E r \in Slots : NotifySelect(r)
  \/ \E r \in Slots : NotifyPush(r)
  \/ \E r \in Slots, failing \in BOOLEAN : NotifyMark(r, failing)

SpecNotify == InitTasks /\ [][NextNotify]_vars

\* ------------------------------------------------------------- payments
\* SpecPay: the payment endpoints.  POST /api/stripe/webhook answers first
\* and then runs its body one store call per step, up to two bodies in
\* flight; the other endpoints are one step each.  Stripe's side is the list
\* of checkout sessions and whether each has been paid.  No store call fails.

\* Number of requests to the payment endpoints in a run.
MaxRequests == 3

\* Number of checkout sessions Stripe holds in a run.
MaxCheckouts == 1

EventTypes == {"checkout.session.completed", "invoice.payment_succeeded"}

\* The stripe-signature header of a request: computed with the endpoint's
\* secret, computed without it, or absent.
Signatures == {"valid", "invalid", "missing"}

\* The events Stripe emits, each with the metadata of its checkout session:
\* two for every paid session.
StripeEvents ==
  { [id |-> <<t, i>>, type |-> t, user |-> checkouts[i].user] :
      t \in EventTypes,
      i \in {j \in 1..Len(checkouts) : checkouts[j].paid} }

\* The bodies somebody without the secret can send: any type, any metadata
\* (or none), under a fresh id or the id of a Stripe event.
ForgedEvents ==
  [ id : {<<"forged", 0>>, <<"checkout.session.completed", 1>>},
    type : EventTypes,
    user : Users \cup {Null} ]

\* A request to a webhook endpoint: a body and its signature header.  Only
\* Stripe can sign.
WebhookRequests ==
  { [event |-> e, sig |-> "valid"] : e \in StripeEvents }
    \cup { [event |-> e, sig |-> g] :
             e \in ForgedEvents, g \in Signatures \ {"valid"} }

\* Every body with every signature header.
RequestShapes ==
  [ event : ForgedEvents \cup
            { [id |-> <<t, i>>, type |-> t, user |-> u] :
                t \in EventTypes, i \in 1..MaxCheckouts, u \in Users },
    sig : Signatures ]

\* stripe.webhooks.constructEvent(body, sig, key) returns the event; it
\* throws without a key and on a header not computed with the key.
constructEvent(sig, key) == key /\ sig = "valid"

Respond(route, sig, status) ==
  [n |-> http.n + 1, route |-> route, sig |-> sig, status |-> status]

\* One profile update to 'pro' or one upgrade notification.
LogEntry(what, u, via, id) ==
  [what |-> what, user |-> u, via |-> via, event |-> id]

\* The amounts of the amount query parameter.
QueryAmounts == {100, 3900, 500001}

\* GET /api/checkout: a checkout session at the list price (STRIPE_PRICE_ID).
Checkout(u) ==
  /\ http.n < MaxRequests
  /\ Len(checkouts) < MaxCheckouts
  /\ checkouts' = Append(checkouts,
       [user |-> u, amount |-> NoNum, custom |-> FALSE, paid |-> FALSE])
  /\ http' = Respond("/api/checkout", Null, 302)
  /\ UNCHANGED <<profiles, secret, stripe_events, hooks, paylog>>
  /\ UNCHANGED <<funnelVars, extraction, taskVars, runs>>

\* GET /api/checkout/custom?lineUserId=u&amount=amt: the amount of the query
\* becomes the unit_amount of a new price when it is within 0..500000.
CheckoutCustom(u, amt) ==
  /\ http.n < MaxRequests
  /\ IF amt < 0 \/ amt > 500000
     THEN /\ http' = Respond("/api/checkout/custom", Null, 400)
          /\ UNCHANGED checkouts
     ELSE /\ Len(checkouts) < MaxCheckouts
          /\ checkouts' = Append(checkouts,
               [user |-> u, amount |-> amt, custom |-> TRUE, paid |-> FALSE])
          /\ http' = Respond("/api/checkout/custom", Null, 302)
  /\ UNCHANGED <<profiles, secret, stripe_events, hooks, paylog>>
  /\ UNCHANGED <<funnelVars, extraction, taskVars, runs>>

\* The customer pays on Stripe's checkout page.
Pay(i) ==
  /\ i \in 1..Len(checkouts)
  /\ ~checkouts[i].paid
  /\ checkouts' = [checkouts EXCEPT ![i].paid = TRUE]
  /\ UNCHANGED <<profiles, secret, stripe_events, hooks, paylog, http>>
  /\ UNCHANGED <<funnelVars, extraction, taskVars, runs>>

\* POST /api/stripe/webhook, up to the response: the signature is verified
\* only when STRIPE_WEBHOOK_SECRET is set; without it the body is parsed as
\* it came.  After the 200 the body of the handler runs on its own.
StripeWebhook(i, req) ==
  /\ http.n < MaxRequests
  /\ req \in WebhookRequests
  /\ IF secret /\ ~constructEvent(req.sig, secret)
     THEN /\ http' = Respond("/api/stripe/webhook", req.sig, 400)
          /\ \A j \in Slots : i <= j
          /\ UNCHANGED hooks
     ELSE /\ hooks[i].pc = "free"
          /\ \A j \in Slots : hooks[j].pc = "free" => i <= j
          /\ http' = Respond("/api/stripe/webhook", req.sig, 200)
          /\ hooks' = [hooks EXCEPT ![i] = [pc |-> "select", event |-> req.event]]
  /\ UNCHANGED <<profiles, secret, checkouts, stripe_events, paylog>>
  /\ UNCHANGED <<funnelVars, extraction, taskVars, runs>>

\* from('stripe_events').select('id').eq('id', event.id): a row found ends
\* the body.
HookSelect(i) ==
  /\ hooks[i].pc = "select"
  /\ hooks' = [hooks EXCEPT ![i] =
       IF hooks[i].event.id \in stripe_events THEN NoHook
       ELSE [hooks[i] EXCEPT !.pc = "insert"]]
  /\ UNCHANGED <<profiles, secret, checkouts, stripe_events, paylog, http>>
  /\ UNCHANGED <<funnelVars, extraction, taskVars, runs>>

\* HookInsert on a table whose id column is no key: the insert of an id
\* that is there succeeds.
HookInsert_NoPrimaryKey(i) ==
  /\ hooks[i].pc = "insert"
  /\ LET event == hooks[i].event
     IN /\ stripe_events' = stripe_events \cup {event.id}
        /\ hooks' = [hooks EXCEPT ![i] =
             IF event.type # "checkout.session.completed"
             THEN [hooks[i] EXCEPT !.pc = "mark"]
             ELSE IF event.user = Null THEN NoHook
             ELSE [hooks[i] EXCEPT !.pc = "update"]]
  /\ UNCHANGED <<profiles, secret, checkouts, paylog, http>>
  /\ UNCHANGED <<funnelVars, extraction, taskVars, runs>>

\* from('stripe_events').insert({id, ...}): id is the primary key, so the
\* insert of an id that is there fails and ends the body.  A
\* checkout.session.completed event without metadata ends it as well.
HookInsert(i) ==
  /\ hooks[i].pc = "insert"
  /\ LET event == hooks[i].event
     IN IF event.id \in stripe_events
        THEN /\ hooks' = [hooks EXCEPT ![i] = NoHook]
             /\ UNCHANGED stripe_events
        ELSE /\ stripe_events' = stripe_events \cup {event.id}
             /\ hooks' = [hooks EXCEPT ![i] =
                  IF event.type # "checkout.session.completed"
                  THEN [hooks[i] EXCEPT !.pc = "mark"]
                  ELSE IF event.user = Null THEN NoHook
                  ELSE [hooks[i] EXCEPT !.pc = "update"]]
  /\ UNCHANGED <<profiles, secret, checkouts, paylog, http>>
  /\ UNCHANGED <<funnelVars, extraction, taskVars, runs>>

\* from('profiles').update({subscription_status: 'pro', ...})
HookUpdate(i) ==
  /\ hooks[i].pc = "update"
  /\ LET event == hooks[i].event
     IN /\ profiles' = [profiles EXCEPT ![event.user] = "pro"]
        /\ paylog' = Append(paylog,
             LogEntry("upgrade", event.user, "webhook", event.id))
  /\ hooks' = [hooks EXCEPT ![i].pc = "push"]
  /\ UNCHANGED <<secret, checkouts, stripe_events, http>>
  /\ UNCHANGED <<funnelVars, extraction, taskVars, runs>>

\* client.pushMessage(lineUserId, ...): the upgrade notification.
HookPush(i) ==
  /\ hooks[i].pc = "push"
  /\ LET event == hooks[i].event
     IN paylog' = Append(paylog,
          LogEntry("notify", event.user, "webhook", event.id))
  /\ hooks' = [hooks EXCEPT ![i].pc = "mark"]
  /\ UNCHANGED <<profiles, secret, checkouts, stripe_events, http>>
  /\ UNCHANGED <<funnelVars, extraction, taskVars, runs>>

\* The second insert of the event id: it meets the row of the first one and
\* its error is not looked at.
HookMark(i) ==
  /\ hooks[i].pc = "mark"
  /\ hooks' = [hooks EXCEPT ![i] = NoHook]
  /\ UNCHANGED <<profiles, secret, checkouts, stripe_events, paylog, http>>
  /\ UNCHANGED <<funnelVars, extraction, taskVars, runs>>

\* POST /webhook/stripe: the signature is always verified, against a secret
\* that may be unset; the event is only logged.  express.json() (server.js
\* line 210) may have parsed the body before the route's express.raw, and
\* then the verification fails for a signed request too.
WebhookStripe(req, parsed) ==
  /\ http.n < MaxRequests
  /\ req \in WebhookRequests
  /\ http' = Respond("/webhook/stripe", req.sig,
               IF constructEvent(req.sig, secret) /\ ~parsed THEN 200 ELSE 400)
  /\ UNCHANGED <<profiles, secret, checkouts, stripe_events, hooks, paylog>>
  /\ UNCHANGED <<funnelVars, extraction, taskVars, runs>>

\* GET /success?session_id=i: the session is retrieved from Stripe and the
\* profile of its metadata is set to 'pro' and notified; payment_status is
\* not read.
Success(i) ==
  /\ http.n < MaxRequests
  /\ i \in 1..Len(checkouts)
  /\ LET u == checkouts[i].user
     IN /\ profiles' = [profiles EXCEPT ![u] = "pro"]
        /\ paylog' = paylog \o << LogEntry("upgrade", u, "success", Null),
                                  LogEntry("notify", u, "success", Null) >>
  /\ http' = Respond("/success", Null, 200)
  /\ UNCHANGED <<secret, checkouts, stripe_events, hooks>>
  /\ UNCHANGED <<funnelVars, extraction, taskVars, runs>>

\* POST /api/admin/upgrade {line_user_id: u}: the profile is set to 'pro'
\* and notified.  The route checks nothing but the presence of line_user_id.
AdminUpgrade(u) ==
  /\ http.n < MaxRequests
  /\ profiles' = [profiles EXCEPT ![u] = "pro"]
  /\ paylog' = paylog \o << LogEntry("upgrade", u, "admin", Null),
                            LogEntry("notify", u, "admin", Null) >>
  /\ http' = Respond("/api/admin/upgrade", Null, 200)
  /\ UNCHANGED <<secret, checkouts, stripe_events, hooks>>
  /\ UNCHANGED <<funnelVars, extraction, taskVars, runs>>

\* The session of a user who started the funnel, answered the three
\* questions, objected once and accepted: the store Spec is in after the
\* texts kakaku, takai, takai, takai, takai, hai desu.
AgreedSessions ==
  LET open == createNegoSession(<<>>, "u1", "indie", LADDERS["indie"])[1]
      offer == open.meta.steps[1]
  IN << [ open EXCEPT
            !.state = "agreed", !.accepted = TRUE, !.current_offer = offer,
            !.final_price = offer, !.completed_at = 6,
            !.meta = Merge(open.meta,
              [ step_index |-> 0, reason_class |-> "budget",
                conversation_history |->
                  << BotEntry("roast"), UserEntry(<<"takai">>),
                     BotEntry("concede"), UserEntry(<<"hai", "desu">>),
                     BotEntry("acceptance") >> ]) ] >>

\* The context of that user.
AgreedContext ==
  [ u \in Users |->
      [ NoContext EXCEPT
          !.present = TRUE, !.last_state = "close", !.purpose = <<"takai">>,
          !.role = "indie", !.constraint_reason = "budget",
          !.current_session_id = 1 ] ]

\* The deployment runs with or without STRIPE_WEBHOOK_SECRET; the user has
\* not negotiated, or has agreed on a price.
InitPay ==
  /\ \/ ctx = [u \in Users |-> NoContext] /\ sessions = <<>> /\ now = 0
     \/ ctx = AgreedContext /\ sessions = AgreedSessions /\ now = 6
  /\ failures = 0
  /\ turn = NoTurn
  /\ calls = [i \in Slots |-> NoCall]
  /\ extraction = NoExtraction
  /\ NoTasks
  /\ NoRuns
  /\ profiles = [u \in Users |-> "free"]
  /\ secret \in BOOLEAN
  /\ checkouts = <<>>
  /\ stripe_events = {}
  /\ hooks = [i \in Slots |-> NoHook]
  /\ paylog = <<>>
  /\ http = NoResponse

NextPay ==
  \/ \E u \in Users : Checkout(u)
  \/ \E u \in Users, amt \in QueryAmounts : CheckoutCustom(u, amt)
  \/ \E i \in 1..MaxCheckouts : Pay(i)
  \/ \E i \in Slots, req \in RequestShapes : StripeWebhook(i, req)
  \/ \E i \in Slots : HookSelect(i)
  \/ \E i \in Slots : HookInsert(i)
  \/ \E i \in Slots : HookUpdate(i)
  \/ \E i \in Slots : HookPush(i)
  \/ \E i \in Slots : HookMark(i)
  \/ \E req \in RequestShapes, parsed \in BOOLEAN : WebhookStripe(req, parsed)
  \/ \E i \in 1..MaxCheckouts : Success(i)
  \/ \E u \in Users : AdminUpgrade(u)

SpecPay == InitPay /\ [][NextPay]_vars

\* ----------------------------------------------------------------- claims
OpenSessions(u) ==
  { i \in 1..Len(sessions) : sessions[i].user_id = u /\ sessions[i].state = "open" }

Closed(row) == row.state \in {"agreed", "cancelled"}

\* C1: once a session's state is 'agreed' or 'cancelled', no later event
\* changes its state, current_offer, final_price or completed_at.
C1_TerminalImmutable ==
  [][ \A i \in 1..Len(sessions) :
        Closed(sessions[i]) =>
          /\ sessions'[i].state = sessions[i].state
          /\ sessions'[i].current_offer = sessions[i].current_offer
          /\ sessions'[i].final_price = sessions[i].final_price
          /\ sessions'[i].completed_at = sessions[i].completed_at ]_vars

\* C2: for every session row final_price is non-null if and only if state =
\* 'agreed', and a final_price that is set equals the session's
\* current_offer at the moment the acceptance was processed.
C2_FinalPriceIffAgreed ==
  [][ /\ \A i \in 1..Len(sessions') :
           (sessions'[i].final_price # NoNum) <=> (sessions'[i].state = "agreed")
      /\ \A i \in 1..Len(sessions) :
           sessions'[i].final_price # sessions[i].final_price =>
             sessions'[i].final_price = sessions[i].current_offer ]_vars

\* C3: every user has at most one negotiation_sessions row in state 'open'.
C3_AtMostOneOpen ==
  \A u \in Users : Cardinality(OpenSessions(u)) <= 1

\* C4: after a turn that processed an acceptance in nego_step, the context's
\* stage, collected fields and session pointer are all null.
C4_AcceptResetsContext ==
  (turn.kind = "text" /\ turn.branch = "accept" /\ ~turn.threw) =>
    LET c == ctx[turn.user]
    IN /\ c.last_state = Null
       /\ c.purpose = NoText
       /\ c.role = Null
       /\ c.budget_yen = NoNum
       /\ c.constraint_reason = Null
       /\ c.current_session_id = NoId

\* The user's latest session has ended and the funnel is not running.
Ended(u, stage) ==
  /\ stage \in {Null, "close"}
  /\ \E i \in 1..Len(sessions) : sessions[i].user_id = u /\ Closed(sessions[i])

\* C5: after a negotiation has ended (agreed or cancelled), a text that does
\* not match the start phrases is declined by handleNegotiationFlow: it
\* returns handled = false and sends no reply.
C5_EndedFunnelDeclines ==
  ( /\ turn.kind = "text"
    /\ ~turn.threw
    /\ Ended(turn.user, turn.stage)
    /\ ~NEGOTIATION_START_REGEX(turn.text) )
  => (turn.handled = FALSE /\ turn.replies = 0)

\* C6: in onboarding_q3 a message from which no amount can be extracted does
\* not advance the stage: last_state stays 'onboarding_q3', the collected
\* fields are unchanged, no session row is created and the budget prompt is
\* sent again.
C6_UnparseableBudgetStays ==
  [][ ( /\ turn'.kind = "text"
        /\ turn'.stage = "onboarding_q3"
        /\ ~turn'.threw
        /\ ~DECLINE_REGEX(turn'.text)
        /\ extractBudgetAndReason(turn'.text).budgetYen = NoNum )
      => LET u == turn'.user
         IN /\ ctx'[u].last_state = "onboarding_q3"
            /\ ctx'[u].purpose = ctx[u].purpose
            /\ ctx'[u].role = ctx[u].role
            /\ ctx'[u].budget_yen = ctx[u].budget_yen
            /\ ctx'[u].constraint_reason = ctx[u].constraint_reason
            /\ Len(sessions') = Len(sessions)
            /\ turn'.replies = 1
            /\ turn'.reply = "onboarding_q3" ]_vars

\* C7: if a store read or write fails during a turn of handleNegotiationFlow,
\* then after the turn the context row and the session rows equal their
\* values before the turn.
C7_FailedTurnAllOrNothing ==
  [][ (turn'.kind = "text" /\ turn'.threw /\ now' # now) =>
        (ctx' = ctx /\ sessions' = sessions) ]_vars

\* C8: for every session row, hard_floor <= soft_floor <= anchor_price and
\* hard_floor <= current_offer <= anchor_price.
C8_PriceOrder ==
  \A i \in 1..Len(sessions) :
    /\ sessions[i].hard_floor <= sessions[i].soft_floor
    /\ sessions[i].soft_floor <= sessions[i].anchor_price
    /\ sessions[i].hard_floor <= sessions[i].current_offer
    /\ sessions[i].current_offer <= sessions[i].anchor_price

\* A session has been conceded down to its floor and a further objection was
\* answered by holding the price.
C8_Witness ==
  /\ turn.branch = "hold"
  /\ \E i \in 1..Len(sessions) :
       /\ sessions[i].current_offer = sessions[i].hard_floor
       /\ sessions[i].meta.step_index = Len(sessions[i].meta.steps) - 1

\* C9: with messages handled one at a time, no event increases a session's
\* current_offer or decreases its meta.step_index.
C9_OfferNeverIncreases ==
  [][ \A i \in 1..Len(sessions) :
        /\ sessions'[i].current_offer <= sessions[i].current_offer
        /\ sessions'[i].meta.step_index >= sessions[i].meta.step_index ]_vars

\* A turn has held the price of a session that had already been conceded.
C9_Witness ==
  /\ turn.branch = "hold"
  /\ \E i \in 1..Len(sessions) :
       /\ sessions[i].meta.step_index >= 0
       /\ sessions[i].current_offer < sessions[i].anchor_price

\* C10: every turn that lowers a session's current_offer increments its
\* concessions_used by exactly one, and every other turn leaves it unchanged.
C10_ConcessionsCounted ==
  [][ \A i \in 1..Len(sessions) :
        IF sessions'[i].current_offer < sessions[i].current_offer
        THEN sessions'[i].concessions_used = sessions[i].concessions_used + 1
        ELSE sessions'[i].concessions_used = sessions[i].concessions_used ]_vars

\* process.env.NEGOTIATION_MAX_CONCESSIONS || '2'
NEGOTIATION_MAX_CONCESSIONS == 2

\* The number of price reductions a session has been granted: the number of
\* ladder steps its current_offer has come down from the anchor.
Reductions(row) ==
  Cardinality({ k \in 1..Len(row.meta.steps) : row.meta.steps[k] >= row.current_offer })

\* C11: the number of price reductions granted within one session never
\* exceeds NEGOTIATION_MAX_CONCESSIONS; once that many have been granted, every
\* further turn holds current_offer.
C11_ConcessionsCapped ==
  [][ \A i \in 1..Len(sessions) :
        /\ Reductions(sessions'[i]) <= NEGOTIATION_MAX_CONCESSIONS
        /\ Reductions(sessions[i]) >= NEGOTIATION_MAX_CONCESSIONS =>
             sessions'[i].current_offer = sessions[i].current_offer ]_vars

\* The id of the session case 'nego_step' works on (NoId when it finds none).
NegoSessionId(c, s, u) ==
  LET sessionId == getProfileContext(c, u).current_session_id
  IN IF sessionId # NoId THEN getNegotiationSessionById(s, sessionId).id
     ELSE getActiveNegotiationSession(s, u).id

\* C12: in nego_step with an existing session, a message matching the
\* acceptance phrases finalizes the session in that turn (no store call
\* failing): state becomes 'agreed', final_price is the current_offer read
\* for the turn, completed_at is set, and current_offer is not changed.
C12_AcceptFinalizes ==
  [][ ( /\ turn'.kind = "text"
        /\ turn'.stage = "nego_step"
        /\ ~turn'.threw
        /\ ACCEPT_REGEX(turn'.text)
        /\ NegoSessionId(ctx, sessions, turn'.user) # NoId )
      => LET id == NegoSessionId(ctx, sessions, turn'.user)
         IN /\ sessions'[id].state = "agreed"
            /\ sessions'[id].final_price = sessions[id].current_offer
            /\ sessions'[id].completed_at = now'
            /\ sessions'[id].current_offer = sessions[id].current_offer ]_vars

\* An acceptance has finalized a session whose offer had been conceded.
C12_Witness ==
  /\ turn.kind = "text" /\ turn.branch = "accept" /\ ~turn.threw
  /\ \E i \in 1..Len(sessions) :
       /\ sessions[i].state = "agreed"
       /\ sessions[i].final_price = sessions[i].current_offer
       /\ sessions[i].current_offer < sessions[i].anchor_price
       /\ sessions[i].completed_at = now

\* The amount a text states, as the funnel's number extraction reads it
\* (NoNum when it states none).
StatedAmount(t) == extractBudgetAndReason(t).budgetYen

\* C13: in nego_step, a message that states a number greater than or equal to
\* the session's current_offer finalizes the session in that turn, whatever
\* the objection classifier returns: state becomes 'agreed' and final_price
\* is set.
C13_CounterOfferAtOrAboveFinalizes ==
  [][ ( /\ turn'.kind = "text"
        /\ turn'.stage = "nego_step"
        /\ ~turn'.threw
        /\ ~DECLINE_REGEX(turn'.text)
        /\ NegoSessionId(ctx, sessions, turn'.user) # NoId
        /\ StatedAmount(turn'.text) # NoNum
        /\ StatedAmount(turn'.text) >=
             sessions[NegoSessionId(ctx, sessions, turn'.user)].current_offer )
      => LET id == NegoSessionId(ctx, sessions, turn'.user)
         IN /\ sessions'[id].state = "agreed"
            /\ sessions'[id].final_price # NoNum ]_vars

\* C14: whenever the context stage is non-null and the user has an open
\* session, a message matching the decline phrases cancels: after the turn
\* (no store call failing) the user has no open session, every session that
\* was open is 'cancelled' with completed_at set and its current_offer
\* unchanged, the context is reset, and the reply carries no checkout link.
C14_DeclineCancels ==
  [][ ( /\ turn'.kind = "text"
        /\ ~turn'.threw
        /\ turn'.stage # Null
        /\ DECLINE_REGEX(turn'.text)
        /\ OpenSessions(turn'.user) # {} )
      => LET u == turn'.user
         IN /\ \A i \in 1..Len(sessions') :
                 ~(sessions'[i].user_id = u /\ sessions'[i].state = "open")
            /\ \A i \in OpenSessions(u) :
                 /\ sessions'[i].state = "cancelled"
                 /\ sessions'[i].completed_at = now'
                 /\ sessions'[i].current_offer = sessions[i].current_offer
            /\ ctx'[u] = [NoContext EXCEPT !.present = TRUE]
            /\ turn'.replies = 1
            /\ turn'.checkout = NoNum ]_vars

\* No further concession is available for a session: its ladder is exhausted
\* or it has been granted NEGOTIATION_MAX_CONCESSIONS reductions.
Exhausted(row) ==
  \/ row.meta.step_index >= Len(row.meta.steps) - 1
  \/ Reductions(row) >= NEGOTIATION_MAX_CONCESSIONS

\* C15: once no further concession is available for a session, every further
\* turn leaves its current_offer unchanged and equal to hard_floor; no input
\* makes the stored or the quoted price lower than hard_floor.
C15_FloorHolds ==
  [][ /\ \A i \in 1..Len(sessions) :
           Exhausted(sessions[i]) =>
             /\ sessions'[i].current_offer = sessions[i].current_offer
             /\ sessions'[i].current_offer = sessions'[i].hard_floor
      /\ \A i \in 1..Len(sessions') :
           sessions'[i].current_offer >= sessions'[i].hard_floor
      /\ (turn'.amount # NoNum /\ NegoSessionId(ctx', sessions', turn'.user) # NoId) =>
           turn'.amount >=
             sessions'[NegoSessionId(ctx', sessions', turn'.user)].hard_floor ]_vars

\* C16: when the context has no stage (absent or last_state null), a text
\* that does not match the start phrases is not handled: handled = false, no
\* reply, no write to the context or to any session.
C16_IdleNotHandled ==
  [][ ( /\ turn'.kind = "text"
        /\ now' # now
        /\ getProfileContext(ctx, turn'.user).last_state = Null
        /\ ~NEGOTIATION_START_REGEX(turn'.text) )
      => /\ turn'.handled = FALSE
         /\ turn'.replies = 0
         /\ ctx' = ctx
         /\ sessions' = sessions ]_vars

\* A decline phrase reached the idle funnel of a user who has a session row
\* and whose context row exists, and was passed on.
C16_Witness ==
  /\ turn.kind = "text" /\ turn.branch = "idle" /\ ~turn.threw
  /\ DECLINE_REGEX(turn.text)
  /\ ctx[turn.user].present
  /\ sessions # <<>>

\* C17: when the context is absent or idle and the message is a start phrase,
\* the turn (no store call failing) sets last_state to 'onboarding_q1' with
\* every collected field and the session pointer null, replies with the
\* first prompt, creates no session and returns handled = true.
C17_StartOpensFunnel ==
  [][ ( /\ turn'.kind = "text"
        /\ ~turn'.threw
        /\ getProfileContext(ctx, turn'.user).last_state = Null
        /\ NEGOTIATION_START_REGEX(turn'.text) )
      => /\ ctx'[turn'.user] =
              [NoContext EXCEPT !.present = TRUE, !.last_state = "onboarding_q1"]
         /\ turn'.replies = 1
         /\ turn'.reply = "onboarding_q1"
         /\ sessions' = sessions
         /\ turn'.handled = TRUE ]_vars

\* A start phrase has opened the funnel again for a user whose earlier
\* negotiation was cancelled.
C17_Witness ==
  /\ turn.kind = "text" /\ turn.branch = "start" /\ ~turn.threw
  /\ ctx[turn.user].last_state = "onboarding_q1"
  /\ \E i \in 1..Len(sessions) : sessions[i].state = "cancelled"

MidFunnel == {"onboarding_q1", "onboarding_q2", "onboarding_q3", "nego_step"}

\* C19: while the context stage is mid-funnel, no event restarts the funnel
\* unless the user sent a decline phrase: the stage is not set back to
\* onboarding_q1 and no collected field or session pointer is cleared, by any
\* text message or follow event.
C19_NoRestartMidFunnel ==
  [][ \A u \in Users :
        ( /\ ctx[u].last_state \in MidFunnel
          /\ ~(turn'.kind = "text" /\ turn'.user = u /\ DECLINE_REGEX(turn'.text)) )
        => /\ ctx'[u].last_state = "onboarding_q1" => ctx[u].last_state = "onboarding_q1"
           /\ ctx[u].purpose # NoText => ctx'[u].purpose # NoText
           /\ ctx[u].role # Null => ctx'[u].role # Null
           /\ ctx[u].budget_yen # NoNum => ctx'[u].budget_yen # NoNum
           /\ ctx[u].constraint_reason # Null => ctx'[u].constraint_reason # Null
           /\ ctx[u].current_session_id # NoId => ctx'[u].current_session_id # NoId ]_vars

C18_ResumesMidFunnelOrSession ==
  \A i \in Slots :
    ( /\ calls[i].pc = "return"
      /\ \/ calls[i].c.last_state \in MidFunnel
         \/ calls[i].c.current_session_id # NoId )
    => calls[i].handled = TRUE

\* C21: a session row is created only by the turn that answers
\* onboarding_q3: that turn inserts exactly one session with state 'open',
\* current_offer = anchor_price = the anchor of the selected ladder, soft and
\* hard floor = that ladder's floor and concessions_used = 0, and (no store
\* call failing) sets current_session_id to its id and last_state to
\* 'nego_step'; no other event inserts a session.
C21_SessionCreatedByBudgetTurn ==
  [][ /\ Len(sessions') # Len(sessions) =>
           /\ turn'.kind = "text"
           /\ turn'.stage = "onboarding_q3"
           /\ ~DECLINE_REGEX(turn'.text)
      /\ ( /\ turn'.kind = "text" /\ now' # now /\ ~turn'.threw
           /\ turn'.stage = "onboarding_q3"
           /\ ~DECLINE_REGEX(turn'.text) )
         => LET u == turn'.user
                row == sessions'[Len(sessions')]
                ladder == LADDERS[decideSegment(ctx', u)]
            IN /\ Len(sessions') = Len(sessions) + 1
               /\ \A i \in 1..Len(sessions) : sessions'[i] = sessions[i]
               /\ row.user_id = u
               /\ row.state = "open"
               /\ row.segment = decideSegment(ctx', u)
               /\ row.current_offer = ladder.anchor
               /\ row.anchor_price = ladder.anchor
               /\ row.soft_floor = ladder.floor
               /\ row.hard_floor = ladder.floor
               /\ row.concessions_used = 0
               /\ ctx'[u].current_session_id = row.id
               /\ ctx'[u].last_state = "nego_step" ]_vars

\* The budget answer '500 yen' of a user whose role is not student has
\* created a session on the student ladder.
C21_Witness ==
  /\ turn.kind = "text" /\ turn.stage = "onboarding_q3" /\ ~turn.threw
  /\ Len(sessions) = 1
  /\ sessions[1].segment = "student"
  /\ sessions[1].current_offer = 3000
  /\ ctx[turn.user].role = "indie"
  /\ ctx[turn.user].budget_yen = 500
  /\ ctx[turn.user].current_session_id = 1

\* C22: in nego_step, with the session the stage works on existing, every
\* message that is neither an acceptance nor a decline phrase, whatever label
\* the classifier returns, yields (no store call failing) exactly one reply
\* quoting the new or held offer, updates the session, and leaves last_state
\* at 'nego_step' with the same current_session_id.
C22_ObjectionAnswered ==
  [][ ( /\ turn'.kind = "text"
        /\ ~turn'.threw
        /\ turn'.stage = "nego_step"
        /\ ~ACCEPT_REGEX(turn'.text)
        /\ ~DECLINE_REGEX(turn'.text)
        /\ NegoSessionId(ctx, sessions, turn'.user) # NoId )
      => LET u == turn'.user
             id == NegoSessionId(ctx, sessions, u)
             before == sessions[id].meta.conversation_history
             after == sessions'[id].meta.conversation_history
         IN /\ turn'.handled = TRUE
            /\ turn'.replies = 1
            /\ turn'.reply \in {"hold", "concede", "final"}
            /\ turn'.amount = sessions'[id].current_offer
            /\ sessions'[id].current_offer <= sessions[id].current_offer
            /\ Len(after) = Len(before) + 2
            /\ after[Len(after)] = BotEntry(turn'.reply)
            /\ ctx'[u].last_state = "nego_step"
            /\ ctx'[u].current_session_id = ctx[u].current_session_id ]_vars

\* A message the classifier labelled 'haggle' has been answered by holding
\* the offer of a session that had been conceded before.
C22_Witness ==
  /\ turn.kind = "text" /\ turn.stage = "nego_step" /\ ~turn.threw
  /\ turn.reply = "hold"
  /\ ctx[turn.user].last_state = "nego_step"
  /\ \E i \in 1..Len(sessions) :
       /\ sessions[i].meta.reason_class = "haggle"
       /\ sessions[i].current_offer < sessions[i].anchor_price
       /\ turn.amount = sessions[i].current_offer

\* C23: if a store operation of a turn fails, no reply is sent to the user for
\* that turn: a reply is only ever sent after every store write of its
\* transition has succeeded.
C23_NoReplyOnStoreFailure ==
  (turn.kind = "text" /\ turn.threw) => turn.replies = 0

C25_ResetClearsContextOnly ==
  [][ ( /\ turn'.kind = "text" /\ now' # now /\ ~turn'.threw
        /\ turn'.branch \in {"decline", "no_session"} )
      => LET u == turn'.user
         IN /\ ctx'[u] = [NoContext EXCEPT !.present = TRUE]
            /\ resetNegotiationContext(ctx, u) = ctx'
            /\ Len(sessions') = Len(sessions)
            /\ \A i \in 1..Len(sessions) :
                 (turn'.branch = "no_session" \/ i # ctx[u].current_session_id)
                   => sessions'[i] = sessions[i] ]_vars

\* The reset has cleared a context that held a purpose, a role and the
\* pointer to a session, which the decline cancelled; the session row keeps
\* its offer.
C25_Witness ==
  /\ turn.kind = "text" /\ ~turn.threw /\ turn.branch = "decline"
  /\ turn.stage = "nego_step"
  /\ ctx[turn.user] = [NoContext EXCEPT !.present = TRUE]
  /\ \E i \in 1..Len(sessions) :
       /\ sessions[i].state = "cancelled"
       /\ sessions[i].current_offer < sessions[i].anchor_price

IsPrefix(a, b) == Len(a) <= Len(b) /\ SubSeq(b, 1, Len(a)) = a

\* C26: a session's conversation_history is append-only: every write to it
\* stores a list of which the previously stored history is a prefix.
C26_HistoryAppendOnly ==
  [][ \A i \in 1..Len(sessions) :
        IsPrefix(sessions[i].meta.conversation_history,
                 sessions'[i].meta.conversation_history) ]_vars

C28_ExtractionHandlesUnits ==
  /\ extraction.pc \in {"extracted", "reextracted"} =>
       /\ extraction.raw \in { <<"1", ".", "2", "man">>,
                               <<"1", "2", "0", "0", "0">>,
                               <<"fw1", "fw2", "fw,", "fw0", "fw0", "fw0">>,
                               <<"1", "2", "k">> }
            => extraction.value = 12000
       /\ extraction.raw = <<"3", "man">> => extraction.value = 30000
  /\ extraction.pc = "reextracted" => extraction.again = extraction.value

\* The reminders of task id among the rows rs.
RemindersOf(rs, id) == SelectSeq(rs, LAMBDA r : r.task_id = id)

\* C29: a step that creates a task (draft flow or one-line command) leaves it
\* with exactly two reminders, 'T-30' at end_at minus 30 minutes and 'T0' at
\* end_at, both unsent.
C29_TwoRemindersPerTask ==
  [][ Len(tasks') > Len(tasks) =>
        LET id == Len(tasks')
            rs == RemindersOf(reminders', id)
        IN /\ Len(rs) = 2
           /\ \E i, j \in 1..2 :
                /\ rs[i].kind = "T-30"
                /\ rs[i].run_at = tasks'[id].end_at - ThirtyMinutes
                /\ rs[j].kind = "T0"
                /\ rs[j].run_at = tasks'[id].end_at
           /\ \A i \in 1..2 : rs[i].sent_at = NoNum ]_vars

\* C30: the 'T0' reminder of a task is eventually pushed, unless the user
\* completes or deletes the task.
C30_DeadlineReminderPushed ==
  \A id \in 1..MaxTasks :
    [](id <= Len(tasks) =>
         <>(\/ \E i \in 1..Len(pushes) : pushes[i] = <<id, "T0">>
            \/ id <= Len(tasks) /\ tasks[id].status \in {"done", "deleted"}))

\* C31: in the three-step draft flow the title message becomes the draft's
\* title as sent; a deadline message that parses to a time not in the past
\* creates exactly one open task with the draft's title and that time and
\* deletes the draft; one that does not parse or lies in the past creates no
\* task and leaves the draft in step 'ask_due'.
C31_DraftFlowCreatesTask ==
  [][ \A u \in Users :
        /\ (drafts[u].step = "ask_title" /\ drafts'[u].step = "ask_due") =>
             /\ turn'.branch = "draft_title"
             /\ drafts'[u].title = turn'.text
             /\ tasks' = tasks
        /\ (drafts[u].step = "ask_due" /\ drafts'[u].step = "none") =>
             /\ turn'.branch = "draft_due"
             /\ turn'.due # NoNum /\ turn'.due >= clock
             /\ Len(tasks') = Len(tasks) + 1
             /\ tasks'[Len(tasks')] =
                  [ user_id |-> u, title |-> drafts[u].title,
                    end_at |-> turn'.due, status |-> "open" ]
             /\ SubSeq(tasks', 1, Len(tasks)) = tasks
        /\ ( /\ drafts[u].step = "ask_due"
             /\ turn' # turn /\ turn'.branch = "draft_due" /\ turn'.user = u
             /\ turn'.due = NoNum \/ turn'.due < clock ) =>
             /\ tasks' = tasks
             /\ drafts' = drafts ]_vars

\* C34: under interleaved invocations every agreed session has
\* current_offer = final_price, and the checkout amount of an acceptance
\* reply is that final_price.
C34_AgreedPriceUnderInterleaving ==
  /\ \A id \in 1..Len(sessions) :
       sessions[id].state = "agreed" =>
         sessions[id].current_offer = sessions[id].final_price
  /\ \A i \in Slots :
       (calls[i].pc = "return" /\ calls[i].reply = "acceptance") =>
         calls[i].checkout = sessions[calls[i].updated.id].final_price

\* An invocation that is an objection turn of nego_step, or has not read
\* anything yet.
C35_ObjectionTurn(call) ==
  \/ call.pc \in {"free", "getProfileContext"}
  \/ /\ call.c.last_state = "nego_step"
     /\ ~DECLINE_REGEX(call.text)
     /\ ~ACCEPT_REGEX(call.text)

\* C35: while the invocations in flight are objection turns of nego_step, a
\* stored current_offer never increases and a stored meta.step_index never
\* decreases.
C35_ConcessionNeverUndone ==
  [][ (\A i \in Slots : C35_ObjectionTurn(calls[i])) =>
        \A id \in 1..Len(sessions) :
          /\ sessions'[id].current_offer <= sessions[id].current_offer
          /\ sessions'[id].meta.step_index >= sessions[id].meta.step_index ]_vars

\* C32: a request to /webhook/stripe or /api/stripe/webhook whose signature
\* is missing or invalid is answered with 400 and changes nothing, whether
\* STRIPE_WEBHOOK_SECRET is set or not.
C32_UnsignedWebhookRejected ==
  [][ ( /\ http'.n # http.n
        /\ http'.route \in {"/webhook/stripe", "/api/stripe/webhook"}
        /\ http'.sig # "valid" ) =>
        /\ http'.status = 400
        /\ UNCHANGED <<profiles, stripe_events, hooks, paylog, checkouts>> ]_vars

\* The entries of the log that the webhook body wrote for event id.
C33_BodyRuns(what, id) ==
  { k \in 1..Len(paylog) :
      /\ paylog[k].via = "webhook"
      /\ paylog[k].what = what
      /\ paylog[k].event = id }

\* C33: for each Stripe event id the body of /api/stripe/webhook upgrades
\* the profile at most once and notifies at most once, however often and
\* however concurrently the event is delivered.
C33_EventProcessedOnce ==
  \A id \in stripe_events :
    /\ Cardinality(C33_BodyRuns("upgrade", id)) <= 1
    /\ Cardinality(C33_BodyRuns("notify", id)) <= 1

\* Two deliveries of one event both found no row; one has inserted the row,
\* upgraded and notified, the other is about to insert.
C33_Witness ==
  \E i, j \in Slots :
    /\ hooks[i].pc = "insert"
    /\ hooks[j].pc = "mark"
    /\ hooks[i].event.id = hooks[j].event.id
    /\ Cardinality(C33_BodyRuns("upgrade", hooks[j].event.id)) = 1
    /\ Cardinality(C33_BodyRuns("notify", hooks[j].event.id)) = 1

\* C38: a profile goes from 'free' to 'pro' only when Stripe holds a paid
\* checkout session for it.
C38_ProOnlyAfterPayment ==
  [][ \A u \in Users :
        (profiles[u] = "free" /\ profiles'[u] = "pro") =>
          \E i \in 1..Len(checkouts) :
            checkouts[i].user = u /\ checkouts[i].paid ]_vars

\* C39: every checkout session made by /api/checkout/custom has the
\* final_price of an agreed session of its user as amount, which is not
\* below that session's hard_floor.
C39_CustomCheckoutIsAgreedPrice ==
  \A i \in 1..Len(checkouts) :
    checkouts[i].custom =>
      \E k \in 1..Len(sessions) :
        /\ sessions[k].user_id = checkouts[i].user
        /\ sessions[k].state = "agreed"
        /\ sessions[k].final_price = checkouts[i].amount
        /\ sessions[k].hard_floor <= checkouts[i].amount

\* C36: each reminder is pushed at most once, over sequential and
\* overlapping notify runs and failing updates of sent_at.
C36_ReminderPushedOnce ==
  \A i, j \in 1..Len(pushes) : pushes[i] = pushes[j] => i = j

\* C37: a reminder is pushed only while its task is open: no push follows
\* the completion, deletion or expiry of its task.
C37_NoPushForClosedTask ==
  [][ \A k \in (Len(pushes) + 1)..Len(pushes') :
        tasks[pushes'[k][1]].status = "open" ]_vars

====
